---- MODULE Spec2Model ----
(***************************************************************************)
(* State-machine model of the sui-wallet front end: the zkLogin session    *)
(* store (useZkLoginSession), the auth context (AuthProvider) and the      *)
(* login page's OAuth / zkLogin handshake.                                 *)
(*                                                                         *)
(* Two revisions of the wallet are present in the sources and both are     *)
(* modelled; `variant` says which one a behaviour runs:                    *)
(*   "wallet" - apps/wallet/hooks/use-zklogin-session.ts (three fields),   *)
(*              apps/wallet/contexts/auth-context.tsx,                     *)
(*              apps/wallet/app/login/page.tsx, apps/wallet/utils/zk-login *)
(*   "salt"   - unnamed/part_000 (session with an in-memory userSalt),     *)
(*              unnamed/part_003 (AuthProvider owning a session instance), *)
(*              apps/wallet/app/setup-salt/page.tsx, unnamed/part_005      *)
(*              (VerifySaltPage), unnamed/part_002 (zklogin-utils)         *)
(***************************************************************************)
EXTENDS Integers, Sequences, FiniteSets, TLC

\* ------------------------------------------------------------------ bounds
MaxKey == 1            \* ephemeral key pairs that can be generated: 1..MaxKey
MaxChainEpoch == 1     \* chain epochs an epoch query can answer: 0..MaxChainEpoch
MaxInFlight == 2       \* cap on concurrently pending asynchronous calls
MaxCoins == 2          \* coin objects a coin query returns: 0..MaxCoins
MaxTxns == 2           \* transactions one transaction query returns: 0..MaxTxns

\* --------------------------------------------------------- value domains
Variants == {"wallet", "salt"}
Instances == {"page", "provider"}   \* components that call useZkLoginSession()
Keys == 1..MaxKey
ChainEpochs == 0..MaxChainEpoch

EmptyString == <<>>                     \* ''
SecretKeyJson(k) == <<k>>               \* JSON.stringify(Array.from(kp.getSecretKey()))
KeyStrings == {EmptyString} \cup {SecretKeyJson(k) : k \in Keys}

NullProof == [kind |-> "null"]          \* zkProof === null
MockProof == [kind |-> "mock"]          \* the development mock proof object
Pins == {"", "123456", "654321", "012345"}  \* user secrets; "" is the empty string

NoSession == [none |-> TRUE]            \* getSession() === null
NoUser == [none |-> TRUE]               \* user === null
Absent == <<>>                          \* storage.getItem(key) === null

VARIABLES
  variant,            \* which revision of the wallet is running
  ss,                 \* sessionStorage of the tab: key -> Absent or <<stored value>>
  ls,                 \* localStorage item 'sui-wallet-user': Absent or <<stored value>>
  hook,               \* React state of each useZkLoginSession() instance
  user,               \* AuthProvider: user
  isLoading,          \* AuthProvider: isLoading
  mounted,            \* the AuthProvider mount effect has run
  useMockProofs,      \* build flag USE_MOCK_PROOFS
  route,              \* page shown in the tab: "login", "home", "setup-salt",
                      \* "verify-salt" or "oauth" (the provider)
  isConnecting,       \* LoginPage: isConnecting ("null" or a provider id)
  idToken,            \* LoginPage: idToken
  oauthData,          \* LoginPage: oauthData
  showPinInput,       \* LoginPage: showPinInput
  loginError,         \* LoginPage: loginError
  isProcessingOAuth,  \* LoginPage: isProcessingOAuth
  calls,              \* asynchronous calls awaiting an answer, oldest first
  saltPin,            \* SetupSaltPage / VerifySaltPage: pin
  confirmPin,         \* SetupSaltPage: confirmPin
  step,               \* SetupSaltPage: step
  saltError,          \* SetupSaltPage / VerifySaltPage: error
  saltLoading,        \* SetupSaltPage / VerifySaltPage: isLoading
  chosen,             \* history: the PIN the user chose at setup ("" when none)
  firstLogin,         \* history: the first login completed in this browser
  transactions,       \* ActivityPage: transactions
  activityLoading,    \* ActivityPage: loading
  fetches,            \* ActivityPage: fetchTransactions calls awaiting their answer
  lastOp              \* history: the operation executed last, what it did

storeVars == <<ss, hook>>
authVars == <<ls, user, isLoading, mounted>>
saltVars == <<saltPin, confirmPin, step, saltError, saltLoading, chosen>>
pageVars == <<route, isConnecting, idToken, oauthData, showPinInput, loginError,
              isProcessingOAuth, calls, saltVars, firstLogin>>
activityVars == <<transactions, activityLoading, fetches>>
\* what no handler of the login pages, the salt pages or the session store
\* writes: the build, and the state of the activity page
buildVars == <<variant, useMockProofs, activityVars>>

\* ---------------------------------------------------------------------
\* use-session-storage: one piece of React state mirrored into one
\* sessionStorage key.  A setter writes the state and the key, a clearer
\* removes the key and resets the state to the default, and on mount the
\* state is read back from the key.
\* ---------------------------------------------------------------------
SessionKeys == {"ephemeralKeyPair", "zkProof", "maxEpoch", "hasUserSalt"}

DefaultValue ==
  [ephemeralKeyPair |-> EmptyString, zkProof |-> NullProof, maxEpoch |-> 0,
   hasUserSalt |-> FALSE]

\* keys of sessionStorage that the sources read or write: the hook's keys and
\* 'userSalt', which processOAuthCallback of the revision with a user secret reads
StorageKeys == SessionKeys \cup {"userSalt"}

EmptyStorage == [k \in StorageKeys |-> Absent]

ReadItem(store, key) ==
  IF store[key] = Absent THEN DefaultValue[key] ELSE store[key][1]

\* st = [h |-> state of one hook instance, s |-> sessionStorage]
SetField(st, key, v) ==
  [h |-> [st.h EXCEPT ![key] = v], s |-> [st.s EXCEPT ![key] = <<v>>]]

ClearField(st, key) ==
  [h |-> [st.h EXCEPT ![key] = DefaultValue[key]], s |-> [st.s EXCEPT ![key] = Absent]]

\* state of a freshly mounted instance: persisted fields read from storage,
\* useState<string>('') for the in-memory salt
MountHook(store) ==
  [ephemeralKeyPair |-> ReadItem(store, "ephemeralKeyPair"),
   zkProof |-> ReadItem(store, "zkProof"),
   maxEpoch |-> ReadItem(store, "maxEpoch"),
   hasUserSalt |-> ReadItem(store, "hasUserSalt"),
   userSalt |-> ""]

\* ---------------------------------------------------------------------
\* useZkLoginSession
\* ---------------------------------------------------------------------
GetSessionNoEpochCheck(h) ==
  IF variant = "salt"
  THEN IF h.ephemeralKeyPair = EmptyString \/ h.zkProof = NullProof \/ h.userSalt = ""
       THEN NoSession
       ELSE [ephemeralKeyPair |-> h.ephemeralKeyPair, zkProof |-> h.zkProof,
             maxEpoch |-> h.maxEpoch, userSalt |-> h.userSalt]
  ELSE IF h.ephemeralKeyPair = EmptyString \/ h.zkProof = NullProof
       THEN NoSession
       ELSE [ephemeralKeyPair |-> h.ephemeralKeyPair, zkProof |-> h.zkProof,
             maxEpoch |-> h.maxEpoch]

GetSession(h) ==
  IF variant = "salt"
  THEN IF h.ephemeralKeyPair = EmptyString \/ h.zkProof = NullProof
          \/ h.maxEpoch = 0 \/ h.userSalt = ""
       THEN NoSession
       ELSE [ephemeralKeyPair |-> h.ephemeralKeyPair, zkProof |-> h.zkProof,
             maxEpoch |-> h.maxEpoch, userSalt |-> h.userSalt]
  ELSE IF h.ephemeralKeyPair = EmptyString \/ h.zkProof = NullProof \/ h.maxEpoch = 0
       THEN NoSession
       ELSE [ephemeralKeyPair |-> h.ephemeralKeyPair, zkProof |-> h.zkProof,
             maxEpoch |-> h.maxEpoch]

IsValidNoEpoch(h) ==
  IF variant = "salt"
  THEN h.ephemeralKeyPair # EmptyString /\ h.zkProof # NullProof /\ h.userSalt # ""
  ELSE h.ephemeralKeyPair # EmptyString /\ h.zkProof # NullProof

IsValid(h) ==
  IF variant = "salt"
  THEN h.ephemeralKeyPair # EmptyString /\ h.zkProof # NullProof
       /\ h.maxEpoch # 0 /\ h.userSalt # ""
  ELSE h.ephemeralKeyPair # EmptyString /\ h.zkProof # NullProof /\ h.maxEpoch # 0

SetSessionFnNoEpoch(st, session) ==
  LET a == SetField(st, "ephemeralKeyPair", session.ephemeralKeyPair)
      b == SetField(a, "zkProof", session.zkProof)
  IN IF variant = "salt"
     THEN [b EXCEPT !.h.userSalt = session.userSalt]
     ELSE b

SetSessionFn(st, session) ==
  LET a == SetField(st, "ephemeralKeyPair", session.ephemeralKeyPair)
      b == SetField(a, "zkProof", session.zkProof)
      c == SetField(b, "maxEpoch", session.maxEpoch)
  IN IF variant = "salt"
     THEN [c EXCEPT !.h.userSalt = session.userSalt]
     ELSE c

ClearSessionFnKeepsProof(st) ==
  LET a == ClearField(st, "ephemeralKeyPair")
      c == ClearField(a, "maxEpoch")
  IN IF variant = "salt"
     THEN LET d == ClearField(c, "hasUserSalt") IN [d EXCEPT !.h.userSalt = ""]
     ELSE c

ClearSessionFn(st) ==
  LET a == ClearField(st, "ephemeralKeyPair")
      b == ClearField(a, "zkProof")
      c == ClearField(b, "maxEpoch")
  IN IF variant = "salt"
     THEN LET d == ClearField(c, "hasUserSalt") IN [d EXCEPT !.h.userSalt = ""]
     ELSE c

SetUserSaltValueFnPersisted(st, salt) ==
  LET a == SetField(st, "hasUserSalt", TRUE)
  IN [h |-> [a.h EXCEPT !.userSalt = salt], s |-> [a.s EXCEPT !["userSalt"] = <<salt>>]]

\* setUserSaltValue: the salt goes to React state, only the flag is persisted
SetUserSaltValueFn(st, salt) ==
  LET a == [st EXCEPT !.h.userSalt = salt] IN SetField(a, "hasUserSalt", TRUE)

ClearUserSaltValueFn(st) ==
  LET a == [st EXCEPT !.h.userSalt = ""] IN ClearField(a, "hasUserSalt")

Store(i) == [h |-> hook[i], s |-> ss]

\* one state shared by every instance, as a store held in a context would be
CommitShared(i, st) ==
  /\ hook' = [j \in Instances |-> st.h]
  /\ ss' = st.s

\* commit the result of a store operation made through instance i
Commit(i, st) ==
  /\ hook' = [hook EXCEPT ![i] = st.h]
  /\ ss' = st.s

\* sessions a caller can pass to setSession (any typed value, empty fields included)
EpochBounds == {0} \cup {e + 2 : e \in ChainEpochs}
SessionValues ==
  IF variant = "salt"
  THEN [ephemeralKeyPair : KeyStrings, zkProof : {NullProof, MockProof},
        maxEpoch : EpochBounds, userSalt : {"", "123456"}]
  ELSE [ephemeralKeyPair : KeyStrings, zkProof : {NullProof, MockProof},
        maxEpoch : EpochBounds]

\* history record of an operation: what ran, on which instance, whether that
\* instance held a valid session before, the side effects of the step, the
\* error it raised ("" when none) and the session passed to setSession
OpWith(name, i, eff, err, arg) ==
  [op |-> name, inst |-> i, pre |-> IsValid(hook[i]), effects |-> eff, error |-> err,
   arg |-> arg]
Op(name, i, eff, err) == OpWith(name, i, eff, err, NoSession)

SetSession(i, session) ==
  /\ Commit(i, SetSessionFn(Store(i), session))
  /\ lastOp' = OpWith("setSession", i, {}, "", session)
  /\ UNCHANGED <<buildVars, authVars, pageVars>>

ClearSession(i) ==
  /\ Commit(i, ClearSessionFn(Store(i)))
  /\ lastOp' = Op("clearSession", i, {}, "")
  /\ UNCHANGED <<buildVars, authVars, pageVars>>

SetEphemeralKeyPair(i, v) ==
  /\ Commit(i, SetField(Store(i), "ephemeralKeyPair", v))
  /\ lastOp' = Op("setEphemeralKeyPair", i, {}, "")
  /\ UNCHANGED <<buildVars, authVars, pageVars>>

SetZkProof(i, v) ==
  /\ Commit(i, SetField(Store(i), "zkProof", v))
  /\ lastOp' = Op("setZkProof", i, {}, "")
  /\ UNCHANGED <<buildVars, authVars, pageVars>>

SetMaxEpoch(i, v) ==
  /\ Commit(i, SetField(Store(i), "maxEpoch", v))
  /\ lastOp' = Op("setMaxEpoch", i, {}, "")
  /\ UNCHANGED <<buildVars, authVars, pageVars>>

ClearEphemeralKeyPair(i) ==
  /\ Commit(i, ClearField(Store(i), "ephemeralKeyPair"))
  /\ lastOp' = Op("clearEphemeralKeyPair", i, {}, "")
  /\ UNCHANGED <<buildVars, authVars, pageVars>>

ClearZkProof(i) ==
  /\ Commit(i, ClearField(Store(i), "zkProof"))
  /\ lastOp' = Op("clearZkProof", i, {}, "")
  /\ UNCHANGED <<buildVars, authVars, pageVars>>

ClearMaxEpoch(i) ==
  /\ Commit(i, ClearField(Store(i), "maxEpoch"))
  /\ lastOp' = Op("clearMaxEpoch", i, {}, "")
  /\ UNCHANGED <<buildVars, authVars, pageVars>>

SetUserSaltValue(i, salt) ==
  /\ variant = "salt"
  /\ Commit(i, SetUserSaltValueFn(Store(i), salt))
  /\ lastOp' = Op("setUserSaltValue", i, {}, "")
  /\ UNCHANGED <<buildVars, authVars, pageVars>>

ClearUserSaltValue(i) ==
  /\ variant = "salt"
  /\ Commit(i, ClearUserSaltValueFn(Store(i)))
  /\ lastOp' = Op("clearUserSaltValue", i, {}, "")
  /\ UNCHANGED <<buildVars, authVars, pageVars>>

\* an instance is mounted again (page load or navigation): the persisted fields
\* are read back from sessionStorage, the in-memory salt starts empty
Remount(i) ==
  /\ hook' = [hook EXCEPT ![i] = MountHook(ss)]
  /\ lastOp' = Op("remount", i, {}, "")
  /\ UNCHANGED <<ss, buildVars, authVars, pageVars>>

\* ---------------------------------------------------------------------
\* identity tokens, identities and the SDK's derivations
\* ---------------------------------------------------------------------
StringAud(a) == [kind |-> "string", list |-> <<a>>]
ArrayAud(l) == [kind |-> "array", list |-> l]
MissingAud == [kind |-> "missing", list |-> <<>>]

GoodToken == [ok |-> TRUE, sub |-> "sub1", aud |-> StringAud("aud1")]
NoSubToken == [ok |-> TRUE, sub |-> "", aud |-> StringAud("aud1")]
NoAudToken == [ok |-> TRUE, sub |-> "sub1", aud |-> MissingAud]
EmptyAudArrayToken == [ok |-> TRUE, sub |-> "sub1", aud |-> ArrayAud(<<>>)]
MalformedToken == [ok |-> FALSE, sub |-> "", aud |-> MissingAud]
Tokens == {GoodToken, NoSubToken, NoAudToken, EmptyAudArrayToken, MalformedToken}
NoToken == [none |-> TRUE]              \* idToken === null
NoData == [none |-> TRUE]               \* oauthData === null

\* !decodedJwt.aud : an absent claim and the empty string are falsy, an array is not
AudFalsy(aud) == aud.kind = "missing" \/ (aud.kind = "string" /\ aud.list[1] = "")

\* Array.isArray(aud) ? aud[0] : aud   ("" stands for undefined)
FirstAud(aud) == IF aud.list = <<>> THEN "" ELSE aud.list[1]

\* BigInt(userSalt): the integer a string of decimal digits denotes (leading
\* zeros do not count, the empty string is 0)
BigIntOf(s) ==
  CASE s = "123456" -> 123456
    [] s = "654321" -> 654321
    [] s = "012345" -> 12345
    [] s = "12345" -> 12345
    [] OTHER -> 0

GenAddressSeedIgnoringSalt(salt, name, value, aud) ==
  [poseidon |-> <<name, value, aud>>]

\* genAddressSeed of the SDK, a Poseidon hash of its four arguments: a digest
\* is written as the term it is the hash of, so equal arguments give equal
\* digests and the hash is taken to be free of collisions
GenAddressSeed(salt, name, value, aud) ==
  [poseidon |-> <<salt, name, value, aud>>]

\* digest.toString(): the decimal digits of a digest, as the block of its first
\* 40 digits followed by the block of the remaining ones (the first blocks of
\* two digests are taken to differ when the digests do)
DecimalString(digest) ==
  <<[digits |-> "1-40", of |-> digest], [digits |-> "41-", of |-> digest]>>

\* addressSeed.slice(0, 40)
Slice40(str) == str[1]

\* generateNonce of the SDK: deterministic in its arguments
GenerateNonce(k, maxEpoch) == [key |-> k, maxEpoch |-> maxEpoch]

GenerateSuiAddressFromProof(zkProof, addressSeed) ==
  [prefix |-> "0x", hex |-> <<Slice40(addressSeed), zkProof>>]

\* generateSuiAddress: `0x${addressSeed.slice(0, 40)}`, the proof is not used
GenerateSuiAddress(zkProof, addressSeed) ==
  [prefix |-> "0x", hex |-> <<Slice40(addressSeed)>>]

ErrNone == ""
ErrDecode == "InvalidTokenError"
ErrMissingFields == "Invalid JWT: missing required fields"
ErrSaltRequired == "User salt is required."
ErrMissingAudience == "Invalid JWT: missing audience"
ErrEpochQuery == "getLatestSuiSystemState failed"
ErrProver == "Prover service error"
ErrImport == "import failed"
ErrTypeError == "TypeError: cannot read properties of undefined"
MsgAuthFailed == "Authentication failed. Please try again."
MsgNoAuthData == "No authentication data found. Please try logging in again."
ErrSaltNotFound == "User salt not found. Please set up your PIN first."
MsgSixDigits == "Please enter a 6-digit PIN"
MsgPinsDiffer == "PINs do not match"
MsgSetupLoginFailed == "Login failed. Please try again."
MsgNoSalt == "No salt found. Please set up your PIN first."
MsgIncorrectPin == "Incorrect PIN. Please try again."

\* ---------------------------------------------------------------------
\* AuthProvider
\* ---------------------------------------------------------------------
UserJson(u) == [json |-> u]             \* JSON.stringify(userData)
CorruptRecord == [text |-> "{not json"] \* a stored value JSON.parse rejects
Parsable(text) == "json" \in DOMAIN text

\* isAuthenticated: !!user
IsAuthenticated == user # NoUser

\* what the mount effect did: nothing saved, identity restored, or a parse
\* failure caught
InitOutcome ==
  IF ls = Absent THEN {} ELSE IF Parsable(ls[1]) THEN {"restored"} ELSE {"parseFailed"}

AuthInitEffectNoCatch ==
  /\ ~mounted
  /\ IF ls = Absent
     THEN isLoading' = FALSE /\ UNCHANGED <<user, ls>>
     ELSE IF Parsable(ls[1])
          THEN isLoading' = FALSE /\ user' = ls[1].json /\ UNCHANGED ls
          ELSE UNCHANGED <<user, ls, isLoading>>
  /\ mounted' = TRUE
  /\ lastOp' = Op("authInit", "provider", InitOutcome, "")
  /\ UNCHANGED <<buildVars, storeVars, pageVars>>

AuthInitEffectKeepsLoading ==
  /\ ~mounted
  /\ IF ls = Absent
     THEN UNCHANGED <<user, ls>>
     ELSE IF Parsable(ls[1])
          THEN user' = ls[1].json /\ UNCHANGED ls
          ELSE ls' = Absent /\ UNCHANGED user
  /\ mounted' = TRUE
  /\ lastOp' = Op("authInit", "provider", InitOutcome, "")
  /\ UNCHANGED <<buildVars, storeVars, pageVars, isLoading>>

\* the mount effect: restore the saved identity, end loading
AuthInitEffect ==
  /\ ~mounted
  /\ IF ls = Absent
     THEN UNCHANGED <<user, ls>>
     ELSE IF Parsable(ls[1])
          THEN user' = ls[1].json /\ UNCHANGED ls
          ELSE ls' = Absent /\ UNCHANGED user
  /\ isLoading' = FALSE
  /\ mounted' = TRUE
  /\ lastOp' = Op("authInit", "provider", InitOutcome, "")
  /\ UNCHANGED <<buildVars, storeVars, pageVars>>

LoginFnMemoryOnly(u) ==
  /\ user' = u
  /\ UNCHANGED ls

\* login(userData), as a state change of the provider
LoginFn(u) ==
  /\ user' = u
  /\ ls' = <<UserJson(u)>>

\* ---------------------------------------------------------------------
\* LoginPage (apps/wallet/app/login/page.tsx) and its helpers in
\* apps/wallet/utils/zk-login.ts
\* ---------------------------------------------------------------------
Call(fn, k, tok, pin, maxEpoch) ==
  [fn |-> fn, key |-> k, token |-> tok, pin |-> pin, maxEpoch |-> maxEpoch]

RemoveAt(s, i) == [j \in 1..(Len(s) - 1) |-> IF j < i THEN s[j] ELSE s[j + 1]]

EpochReplies ==
  {[ok |-> FALSE, epoch |-> 0]} \cup {[ok |-> TRUE, epoch |-> e] : e \in ChainEpochs}

\* pages wrapped in LoginLayout
LoginLayoutRoutes == {"login", "setup-salt", "verify-salt"}

\* LoginLayout renders its children only once loading is over and nobody is
\* authenticated
LoginUiVisible == route = "login" /\ mounted /\ ~isLoading /\ user = NoUser

\* the page renders the spinner, else the PIN form, else the login buttons
LoginButtonsShown == LoginUiVisible /\ ~isProcessingOAuth /\ ~showPinInput
SaltFormShown == LoginUiVisible /\ ~isProcessingOAuth /\ showPinInput

ButtonNeverDisabled == FALSE

\* disabled={isConnecting !== null}
ButtonDisabled == isConnecting # "null"

\* state of a LoginPage that has just been mounted (isConnecting, idToken and
\* calls are set by the mount effect)
FreshLoginPage ==
  /\ oauthData' = NoData
  /\ showPinInput' = FALSE
  /\ loginError' = ""
  /\ isProcessingOAuth' = FALSE

\* state of a SetupSaltPage / VerifySaltPage that has just been mounted
FreshSaltPage ==
  /\ saltPin' = ""
  /\ confirmPin' = ""
  /\ step' = "setup"
  /\ saltError' = ""
  /\ saltLoading' = FALSE

\* The tab loads a page of the wallet (typed URL, reload, or the OAuth provider
\* redirecting back with an id_token).  Script state is rebuilt: the provider
\* starts loading, every session instance reads sessionStorage, pending calls of
\* the old document are gone.  LoginPage's mount effect starts
\* handleOAuthCallback when the URL carries an id_token.
PageLoad(r, tok) ==
  /\ r \in {"home", "verify-salt"} => tok = NoToken
  /\ (variant = "salt" /\ r = "login") => tok = NoToken
  /\ r \in {"setup-salt", "verify-salt"} => variant = "salt"
  /\ route' = r
  /\ user' = NoUser
  /\ isLoading' = TRUE
  /\ mounted' = FALSE
  /\ hook' = [i \in Instances |-> MountHook(ss)]
  /\ FreshLoginPage
  /\ idToken' = tok
  /\ IF tok # NoToken
     THEN IF r = "login"
          THEN /\ isConnecting' = "google"
               /\ calls' = <<Call("handleOAuthCallback", 0, tok, "", 0)>>
          ELSE /\ isConnecting' = "null"
               /\ calls' = <<Call("jwtDecodeImport", 0, tok, "", 0)>>
     ELSE /\ isConnecting' = "null"
          /\ calls' = <<>>
  /\ lastOp' = Op("pageLoad", "page", {}, "")
  /\ FreshSaltPage
  /\ UNCHANGED <<buildVars, ss, ls, chosen, firstLogin>>

\* The tab is closed and the wallet is opened again in a new one: sessionStorage
\* starts empty, localStorage is kept.
ReopenTab(r) ==
  /\ ss' = EmptyStorage
  /\ route' = r
  /\ user' = NoUser
  /\ isLoading' = TRUE
  /\ mounted' = FALSE
  /\ hook' = [i \in Instances |-> MountHook(EmptyStorage)]
  /\ FreshLoginPage
  /\ FreshSaltPage
  /\ idToken' = NoToken
  /\ isConnecting' = "null"
  /\ calls' = <<>>
  /\ lastOp' = Op("reopenTab", "page", {}, "")
  /\ UNCHANGED <<buildVars, ls, chosen, firstLogin>>

CallbackImportReplyNoFinally(i, ok) ==
  /\ i \in 1..Len(calls)
  /\ calls[i].fn = "handleOAuthCallback"
  /\ calls' = RemoveAt(calls, i)
  /\ LET tok == calls[i].token
         err == IF ~ok THEN ErrImport ELSE IF ~tok.ok THEN ErrDecode ELSE ErrNone
     IN /\ IF err = ErrNone
           THEN /\ oauthData' = [sub |-> tok.sub, provider |-> "google"]
                /\ showPinInput' = TRUE
                /\ isConnecting' = "null"
                /\ UNCHANGED loginError
           ELSE /\ loginError' = MsgAuthFailed
                /\ UNCHANGED <<oauthData, showPinInput, isConnecting>>
        /\ lastOp' = Op("handleOAuthCallback", "page", {}, err)
  /\ UNCHANGED <<buildVars, saltVars, firstLogin, storeVars, authVars, route, idToken, isProcessingOAuth>>

\* handleOAuthCallback after `await import('jwt-decode')`
CallbackImportReply(i, ok) ==
  /\ i \in 1..Len(calls)
  /\ calls[i].fn = "handleOAuthCallback"
  /\ calls' = RemoveAt(calls, i)
  /\ LET tok == calls[i].token
         err == IF ~ok THEN ErrImport ELSE IF ~tok.ok THEN ErrDecode ELSE ErrNone
     IN /\ IF err = ErrNone
           THEN /\ oauthData' = [sub |-> tok.sub, provider |-> "google"]
                /\ showPinInput' = TRUE
                /\ UNCHANGED loginError
           ELSE /\ loginError' = MsgAuthFailed
                /\ UNCHANGED <<oauthData, showPinInput>>
        /\ lastOp' = Op("handleOAuthCallback", "page", {}, err)
  /\ isConnecting' = "null"
  /\ UNCHANGED <<buildVars, saltVars, firstLogin, storeVars, authVars, route, idToken, isProcessingOAuth>>

\* handlePinBack
HandlePinBack ==
  /\ variant = "wallet"
  /\ SaltFormShown
  /\ showPinInput' = FALSE
  /\ oauthData' = NoData
  /\ lastOp' = Op("handlePinBack", "page", {}, "")
  /\ UNCHANGED <<buildVars, saltVars, firstLogin, storeVars, authVars, route, isConnecting, idToken,
                 loginError, isProcessingOAuth, calls>>

\* handleOAuthLogin('google') up to the epoch query of initiateOAuthFlow
ClickGoogle(k) ==
  /\ variant = "wallet"
  /\ LoginButtonsShown
  /\ ~ButtonDisabled
  /\ Len(calls) < MaxInFlight
  /\ isConnecting' = "google"
  /\ calls' = Append(calls, Call("handleOAuthLogin", k, NoToken, "", 0))
  /\ lastOp' = Op("handleOAuthLogin:start", "page", {"keygen", "epochQuery"}, "")
  /\ UNCHANGED <<buildVars, saltVars, firstLogin, storeVars, authVars, route, idToken, oauthData,
                 showPinInput, loginError, isProcessingOAuth>>

\* what initiateOAuthFlow resolves to: the OAuth URL, a string
InitiateOAuthFlowResult(k, maxEpoch) ==
  [type |-> "string", nonce |-> GenerateNonce(k, maxEpoch)]

Undefined == [undefined |-> TRUE]

\* const { url, data } = value : a property read of a string primitive that has
\* no such property yields undefined
Property(value, name) ==
  IF value.type = "object" /\ name \in DOMAIN value THEN value[name] ELSE Undefined

\* handleOAuthLogin from the answer of the epoch query on: initiateOAuthFlow
\* stores the key and the epoch bound in sessionStorage and returns the URL, the
\* handler destructures the result, stores data.* through the hook and redirects
InitEpochReply(i, reply) ==
  /\ i \in 1..Len(calls)
  /\ calls[i].fn = "handleOAuthLogin"
  /\ calls' = RemoveAt(calls, i)
  /\ isConnecting' = "null"
  /\ IF ~reply.ok
     THEN /\ loginError' = MsgAuthFailed
          /\ lastOp' = Op("handleOAuthLogin", "page", {}, ErrEpochQuery)
          /\ UNCHANGED <<storeVars, route>>
     ELSE LET k == calls[i].key
              maxEpoch == reply.epoch + 2
              result == InitiateOAuthFlowResult(k, maxEpoch)
              written == [ss EXCEPT !["ephemeralKeyPair"] = <<SecretKeyJson(k)>>,
                                    !["maxEpoch"] = <<maxEpoch>>]
              data == Property(result, "data")
          IN IF data = Undefined
             THEN /\ ss' = written
                  /\ loginError' = MsgAuthFailed
                  /\ lastOp' = Op("handleOAuthLogin", "page", {"storageWrite"}, ErrTypeError)
                  /\ UNCHANGED <<hook, route>>
             ELSE LET a == SetField([h |-> hook["page"], s |-> written],
                                    "ephemeralKeyPair", data.ephemeralKeyPair)
                      b == SetField(a, "maxEpoch", data.maxEpoch)
                  IN /\ Commit("page", b)
                     /\ route' = "oauth"
                     /\ lastOp' = Op("handleOAuthLogin", "page",
                                     {"storageWrite", "redirect"}, "")
                     /\ UNCHANGED loginError
  /\ UNCHANGED <<buildVars, saltVars, firstLogin, authVars, idToken, oauthData, showPinInput,
                 isProcessingOAuth>>

\* processOAuthCallback up to its first await: the error it throws there, if any
ProcessPrecheckNoClaimCheck(tok, pin) ==
  IF ~tok.ok THEN ErrDecode
  ELSE IF pin = "" THEN ErrSaltRequired
  ELSE ErrNone

ProcessPrecheck(tok, pin) ==
  IF ~tok.ok THEN ErrDecode
  ELSE IF tok.sub = "" \/ AudFalsy(tok.aud) THEN ErrMissingFields
  ELSE IF pin = "" THEN ErrSaltRequired
  ELSE ErrNone

\* the proof the prover service returns for a request
ProverProof(call) ==
  [kind |-> "prover", key |-> call.key, maxEpoch |-> call.maxEpoch,
   sub |-> call.token.sub]

\* the identity processOAuthCallback returns
DerivedUser(tok, pin, proof) ==
  [address |-> GenerateSuiAddress(proof,
                 DecimalString(GenAddressSeed(BigIntOf(pin), "sub", tok.sub,
                                              FirstAud(tok.aud)))),
   provider |-> "google", sub |-> tok.sub]

\* history record of a completed login: what the user supplied and the address
\* that was derived
NoLogin == [none |-> TRUE]
LoginRecord(c, proof) ==
  [pin |-> c.pin, sub |-> c.token.sub, aud |-> FirstAud(c.token.aud),
   maxEpoch |-> c.maxEpoch, address |-> DerivedUser(c.token, c.pin, proof).address]

\* handlePinComplete(pin) up to the epoch query of processOAuthCallback
HandlePinComplete(pin, k) ==
  /\ variant = "wallet"
  /\ SaltFormShown
  /\ Len(calls) < MaxInFlight
  /\ showPinInput' = FALSE
  /\ IF oauthData = NoData \/ idToken = NoToken
     THEN /\ loginError' = MsgNoAuthData
          /\ lastOp' = Op("handlePinComplete:failed", "page", {}, MsgNoAuthData)
          /\ UNCHANGED <<isProcessingOAuth, calls>>
     ELSE LET err == ProcessPrecheck(idToken, pin)
          IN IF err # ErrNone
             THEN /\ loginError' = MsgAuthFailed
                  /\ isProcessingOAuth' = FALSE
                  /\ lastOp' = Op("handlePinComplete:failed", "page", {}, err)
                  /\ UNCHANGED calls
             ELSE /\ loginError' = ""
                  /\ isProcessingOAuth' = TRUE
                  /\ calls' = Append(calls,
                                Call("processOAuthCallback:epoch", k, idToken, pin, 0))
                  /\ lastOp' = Op("handlePinComplete:start", "page",
                                  {"keygen", "epochQuery"}, "")
  /\ UNCHANGED <<buildVars, saltVars, firstLogin, storeVars, authVars, route, isConnecting, idToken,
                 oauthData>>

PinFailedNoFinally(i, err) ==
  /\ calls' = RemoveAt(calls, i)
  /\ loginError' = MsgAuthFailed
  /\ lastOp' = Op("handlePinComplete:failed", "page", {}, err)
  /\ UNCHANGED <<storeVars, authVars, route, isProcessingOAuth, firstLogin>>

\* the catch and finally blocks of handlePinComplete
PinFailed(i, err) ==
  /\ calls' = RemoveAt(calls, i)
  /\ loginError' = MsgAuthFailed
  /\ isProcessingOAuth' = FALSE
  /\ lastOp' = Op("handlePinComplete:failed", "page", {}, err)
  /\ UNCHANGED <<storeVars, authVars, route, firstLogin>>

CompleteLoginNoSession(i, c, proof) ==
  /\ calls' = RemoveAt(calls, i)
  /\ LoginFn(DerivedUser(c.token, c.pin, proof))
  /\ route' = "home"
  /\ isProcessingOAuth' = FALSE
  /\ lastOp' = OpWith("handlePinComplete:complete", "page", {"storageWrite", "login"}, "",
                      LoginRecord(c, proof))
  /\ firstLogin' = IF firstLogin = NoLogin THEN LoginRecord(c, proof) ELSE firstLogin
  /\ UNCHANGED <<storeVars, loginError, isLoading, mounted>>

\* the rest of handlePinComplete once processOAuthCallback has resolved:
\* setSession, login, router.push('/'), finally
CompleteLogin(i, c, proof) ==
  /\ calls' = RemoveAt(calls, i)
  /\ Commit("page", SetSessionFn(Store("page"),
        [ephemeralKeyPair |-> SecretKeyJson(c.key), zkProof |-> proof,
         maxEpoch |-> c.maxEpoch]))
  /\ LoginFn(DerivedUser(c.token, c.pin, proof))
  /\ route' = "home"
  /\ isProcessingOAuth' = FALSE
  /\ lastOp' = OpWith("handlePinComplete:complete", "page", {"storageWrite", "login"}, "",
                      LoginRecord(c, proof))
  /\ firstLogin' = IF firstLogin = NoLogin THEN LoginRecord(c, proof) ELSE firstLogin
  /\ UNCHANGED <<loginError, isLoading, mounted>>

\* processOAuthCallback from the answer of the epoch query on: the epoch bound,
\* the audience, the address seed, then generateZkLoginProof (the mock proof at
\* once, or a request to the prover)
PinEpochReply(i, reply) ==
  /\ i \in 1..Len(calls)
  /\ calls[i].fn = "processOAuthCallback:epoch"
  /\ LET c == [calls[i] EXCEPT !.maxEpoch = reply.epoch + 2]
     IN IF ~reply.ok
        THEN PinFailed(i, ErrEpochQuery)
        ELSE IF FirstAud(c.token.aud) = ""
        THEN PinFailed(i, ErrMissingAudience)
        ELSE IF useMockProofs
        THEN CompleteLogin(i, c, MockProof)
        ELSE /\ calls' = [calls EXCEPT ![i] = [c EXCEPT !.fn = "processOAuthCallback:prover"]]
             /\ lastOp' = Op("handlePinComplete:proofRequest", "page", {"proverRequest"}, "")
             /\ UNCHANGED <<storeVars, authVars, route, loginError, isProcessingOAuth,
                            firstLogin>>
  /\ UNCHANGED <<buildVars, saltVars, isConnecting, idToken, oauthData, showPinInput>>

\* generateZkLoginProof from the prover's answer on (ok: a 2xx response)
PinProverReply(i, ok) ==
  /\ i \in 1..Len(calls)
  /\ calls[i].fn = "processOAuthCallback:prover"
  /\ IF ok
     THEN CompleteLogin(i, calls[i], ProverProof(calls[i]))
     ELSE PinFailed(i, ErrProver)
  /\ UNCHANGED <<buildVars, saltVars, isConnecting, idToken, oauthData, showPinInput>>

\* what logout() leaves of the provider's session instance and of sessionStorage
LogoutStore ==
  IF variant = "salt" THEN ClearSessionFn(Store("provider")) ELSE Store("provider")

\* AuthenticatedLayout.handleLogout: logout(), then router.push('/login'), which
\* mounts a new LoginPage
Logout ==
  /\ route = "home"
  /\ mounted
  /\ user # NoUser
  /\ user' = NoUser
  /\ ls' = Absent
  /\ ss' = LogoutStore.s
  /\ hook' = [hook EXCEPT !["provider"] = LogoutStore.h,
                          !["page"] = MountHook(LogoutStore.s)]
  /\ route' = "login"
  /\ FreshLoginPage
  /\ isConnecting' = "null"
  /\ idToken' = NoToken
  /\ calls' = <<>>
  /\ lastOp' = Op("logout", "page", {}, "")
  /\ UNCHANGED <<buildVars, saltVars, firstLogin, isLoading, mounted>>

\* the redirect effects of the two layouts
LayoutRedirect ==
  /\ mounted
  /\ \/ /\ route \in LoginLayoutRoutes
        /\ ~isLoading
        /\ user # NoUser
        /\ ~isProcessingOAuth
        /\ route' = "home"
        /\ calls' = <<>>
        /\ FreshSaltPage
        /\ UNCHANGED <<hook, isConnecting, idToken, oauthData, showPinInput,
                       loginError, isProcessingOAuth>>
     \/ /\ route = "home"
        /\ user = NoUser
        /\ route' = "login"
        /\ hook' = [hook EXCEPT !["page"] = MountHook(ss)]
        /\ FreshLoginPage
        /\ FreshSaltPage
        /\ isConnecting' = "null"
        /\ idToken' = NoToken
        /\ calls' = <<>>
  /\ lastOp' = Op("redirect", "page", {}, "")
  /\ UNCHANGED <<buildVars, ss, authVars, chosen, firstLogin>>

\* ---------------------------------------------------------------------
\* SetupSaltPage (apps/wallet/app/setup-salt/page.tsx) and VerifySaltPage
\* (unnamed/part_005), both rendered inside LoginLayout, with
\* processOAuthCallback of unnamed/part_002
\* ---------------------------------------------------------------------
SaltPageVisible(r) ==
  variant = "salt" /\ route = r /\ mounted /\ ~isLoading /\ user = NoUser

\* values the PIN input hands to onComplete
EnteredPins == {"12345", "123456", "654321"}

\* the mount effect's import('jwt-decode').then(...): oauthData is set when the
\* token decodes; a failed import or decode is an unhandled rejection
JwtDecodeReply(i, ok) ==
  /\ i \in 1..Len(calls)
  /\ calls[i].fn = "jwtDecodeImport"
  /\ SaltPageVisible("setup-salt")
  /\ calls' = RemoveAt(calls, i)
  /\ LET tok == calls[i].token
         err == IF ~ok THEN ErrImport ELSE IF ~tok.ok THEN ErrDecode ELSE ErrNone
     IN /\ oauthData' = IF err = ErrNone
                        THEN [sub |-> tok.sub, provider |-> "google"]
                        ELSE oauthData
        /\ lastOp' = Op("jwtDecode", "page", {}, err)
  /\ UNCHANGED <<buildVars, storeVars, authVars, saltVars, firstLogin, route,
                 isConnecting, idToken, showPinInput, loginError, isProcessingOAuth>>

\* SetupSaltPage.handlePinComplete / handleConfirmPinComplete, the PIN input's
\* onComplete in the two steps
SetupPinComplete(p) ==
  /\ SaltPageVisible("setup-salt")
  /\ ~saltLoading
  /\ IF step = "setup"
     THEN saltPin' = p /\ UNCHANGED confirmPin
     ELSE confirmPin' = p /\ UNCHANGED saltPin
  /\ saltError' = ""
  /\ lastOp' = Op("handlePinComplete", "page", {}, "")
  /\ UNCHANGED <<buildVars, storeVars, authVars, step, saltLoading, chosen, firstLogin,
                 route, isConnecting, idToken, oauthData, showPinInput, loginError,
                 isProcessingOAuth, calls>>

\* disabled={isLoading || (step === 'setup' ? pin.length !== 6 : confirmPin.length !== 6)}
SetupButtonDisabled ==
  saltLoading \/ (IF step = "setup" THEN Len(saltPin) # 6 ELSE Len(confirmPin) # 6)

\* handleNext
HandleNext ==
  /\ SaltPageVisible("setup-salt")
  /\ step = "setup"
  /\ ~SetupButtonDisabled
  /\ IF Len(saltPin) # 6
     THEN /\ saltError' = MsgSixDigits
          /\ lastOp' = Op("handleNext:failed", "page", {}, MsgSixDigits)
          /\ UNCHANGED step
     ELSE /\ step' = "confirm"
          /\ saltError' = ""
          /\ lastOp' = Op("handleNext", "page", {}, "")
  /\ UNCHANGED <<buildVars, storeVars, authVars, saltPin, confirmPin, saltLoading,
                 chosen, firstLogin, route, isConnecting, idToken, oauthData,
                 showPinInput, loginError, isProcessingOAuth, calls>>

\* handleBack of SetupSaltPage
HandleBack ==
  /\ SaltPageVisible("setup-salt")
  /\ step = "confirm"
  /\ ~saltLoading
  /\ step' = "setup"
  /\ confirmPin' = ""
  /\ saltError' = ""
  /\ lastOp' = Op("handleBack", "page", {}, "")
  /\ UNCHANGED <<buildVars, storeVars, authVars, saltPin, saltLoading, chosen,
                 firstLogin, route, isConnecting, idToken, oauthData, showPinInput,
                 loginError, isProcessingOAuth, calls>>

\* router.push('/login') from a salt page: the page is unmounted, a LoginPage
\* with its own session instance is mounted
PushLogin(store) ==
  /\ route' = "login"
  /\ hook' = [hook EXCEPT !["page"] = MountHook(store)]
  /\ FreshLoginPage
  /\ FreshSaltPage
  /\ isConnecting' = "null"
  /\ idToken' = NoToken
  /\ calls' = <<>>

ConfirmMismatchStoresPin ==
  /\ saltError' = MsgPinsDiffer
  /\ lastOp' = Op("handleConfirm:failed", "page", {}, MsgPinsDiffer)
  /\ Commit("page", SetUserSaltValueFn(Store("page"), saltPin))
  /\ UNCHANGED <<saltPin, confirmPin, step, saltLoading, chosen,
                 route, isConnecting, idToken, oauthData, showPinInput,
                 loginError, isProcessingOAuth, calls>>

\* handleConfirm when pin !== confirmPin: the error is shown, nothing else
ConfirmMismatch ==
  /\ saltError' = MsgPinsDiffer
  /\ lastOp' = Op("handleConfirm:failed", "page", {}, MsgPinsDiffer)
  /\ UNCHANGED <<storeVars, saltPin, confirmPin, step, saltLoading, chosen,
                 route, isConnecting, idToken, oauthData, showPinInput,
                 loginError, isProcessingOAuth, calls>>

\* handleConfirm up to the first await of completeZkLogin
HandleConfirm ==
  /\ SaltPageVisible("setup-salt")
  /\ step = "confirm"
  /\ ~SetupButtonDisabled
  /\ Len(calls) < MaxInFlight
  /\ IF saltPin # confirmPin
     THEN ConfirmMismatch
     ELSE LET st == SetUserSaltValueFn(Store("page"), saltPin)
          IN /\ chosen' = saltPin
             /\ ss' = st.s
             /\ IF oauthData # NoData /\ idToken # NoToken
                THEN /\ hook' = [hook EXCEPT !["page"] = st.h]
                     /\ saltLoading' = TRUE
                     /\ calls' = Append(calls,
                                   Call("completeZkLogin", 0, idToken, saltPin, 0))
                     /\ lastOp' = Op("handleConfirm:start", "page", {"saltSet"}, "")
                     /\ UNCHANGED <<saltPin, confirmPin, step, saltError, route,
                                    isConnecting, idToken, oauthData, showPinInput,
                                    loginError, isProcessingOAuth>>
                ELSE /\ PushLogin(st.s)
                     /\ lastOp' = Op("handleConfirm", "page", {"saltSet", "redirect"}, "")
  /\ UNCHANGED <<buildVars, authVars, firstLogin>>

\* processOAuthCallback(idToken, suiClient) of unnamed/part_002 up to its first
\* await: the error it throws there, if any
SaltProcessPrecheck(tok, store) ==
  IF ~tok.ok THEN ErrDecode
  ELSE IF tok.sub = "" \/ AudFalsy(tok.aud) THEN ErrMissingFields
  ELSE IF store["userSalt"] = Absent \/ store["userSalt"] = <<"">> THEN ErrSaltNotFound
  ELSE ErrNone

\* how the services completeZkLogin awaits answer
ServiceOutcomes == {"importFailed", "epochFailed", "proverFailed", "ok"}

\* the error completeZkLogin catches, if any
CompleteZkLoginError(tok, store, outcome) ==
  IF outcome = "importFailed" THEN ErrImport
  ELSE IF SaltProcessPrecheck(tok, store) # ErrNone THEN SaltProcessPrecheck(tok, store)
  ELSE IF outcome = "epochFailed" THEN ErrEpochQuery
  ELSE IF FirstAud(tok.aud) = "" THEN ErrMissingAudience
  ELSE IF outcome = "proverFailed" THEN ErrProver
  ELSE ErrNone

\* the history record of a completeZkLogin attempt
SetupAttempt(c, outcome) == [token |-> c.token, pin |-> c.pin, services |-> outcome]

\* completeZkLogin from its imports on, and the finally block of handleConfirm.
\* The page's controls are disabled while it runs (isLoading).
CompleteZkLogin(i, outcome, k, e) ==
  /\ i \in 1..Len(calls)
  /\ calls[i].fn = "completeZkLogin"
  /\ SaltPageVisible("setup-salt")
  /\ calls' = RemoveAt(calls, i)
  /\ saltLoading' = FALSE
  /\ LET c == calls[i]
         err == CompleteZkLoginError(c.token, ss, outcome)
         maxEpoch == e + 2
         call == [c EXCEPT !.key = k, !.maxEpoch = maxEpoch]
         proof == ProverProof(call)
     IN IF err # ErrNone
        THEN /\ saltError' = MsgSetupLoginFailed
             /\ lastOp' = OpWith("completeZkLogin:failed", "page", {}, err,
                                 SetupAttempt(c, outcome))
             /\ UNCHANGED <<storeVars, authVars, route>>
        ELSE /\ Commit("page", SetSessionFn(Store("page"),
                  [ephemeralKeyPair |-> SecretKeyJson(k), zkProof |-> proof,
                   maxEpoch |-> maxEpoch, userSalt |-> saltPin]))
             /\ LoginFn(DerivedUser(c.token, ss["userSalt"][1], proof))
             /\ route' = "home"
             /\ lastOp' = OpWith("completeZkLogin", "page", {"storageWrite", "login"}, "",
                                 SetupAttempt(c, outcome))
             /\ UNCHANGED <<saltError, isLoading, mounted>>
  /\ UNCHANGED <<buildVars, saltPin, confirmPin, step, chosen, firstLogin, isConnecting,
                 idToken, oauthData, showPinInput, loginError, isProcessingOAuth>>

\* VerifySaltPage.handlePinComplete
VerifyPinComplete(p) ==
  /\ SaltPageVisible("verify-salt")
  /\ ~saltLoading
  /\ saltPin' = p
  /\ saltError' = ""
  /\ lastOp' = Op("handlePinComplete", "page", {}, "")
  /\ UNCHANGED <<buildVars, storeVars, authVars, confirmPin, step, saltLoading, chosen,
                 firstLogin, route, isConnecting, idToken, oauthData, showPinInput,
                 loginError, isProcessingOAuth, calls>>

\* the outcome of handleVerify for the PIN entered and the page's session
\* instance: hasSalt() is the persisted flag, userSalt the in-memory secret
VerifyError(pin, h) ==
  IF Len(pin) # 6 THEN MsgSixDigits
  ELSE IF ~h.hasUserSalt THEN MsgNoSalt
  ELSE IF pin # h.userSalt THEN MsgIncorrectPin
  ELSE ErrNone

\* handleVerify (the button is disabled while pin.length !== 6)
HandleVerify ==
  /\ SaltPageVisible("verify-salt")
  /\ ~saltLoading
  /\ Len(saltPin) = 6
  /\ LET err == VerifyError(saltPin, hook["page"])
     IN IF err # ErrNone
        THEN /\ saltError' = err
             /\ lastOp' = OpWith("handleVerify:failed", "page", {}, err, [pin |-> saltPin])
             /\ UNCHANGED <<hook, saltPin, confirmPin, step, saltLoading, route,
                            isConnecting, idToken, oauthData, showPinInput, loginError,
                            isProcessingOAuth, calls>>
        ELSE /\ PushLogin(ss)
             /\ lastOp' = OpWith("handleVerify", "page", {"redirect"}, "", [pin |-> saltPin])
  /\ UNCHANGED <<buildVars, ss, authVars, chosen, firstLogin>>

\* handleBack of VerifySaltPage: router.push('/login')
VerifyHandleBack ==
  /\ SaltPageVisible("verify-salt")
  /\ ~saltLoading
  /\ PushLogin(ss)
  /\ lastOp' = Op("handleBack", "page", {"redirect"}, "")
  /\ UNCHANGED <<buildVars, ss, authVars, chosen, firstLogin>>

\* ---------------------------------------------------------------------
\* signTransactionWithZkLogin (unnamed/part_003, unnamed/part_002), called
\* from the home page with the session the store returns
\* ---------------------------------------------------------------------
SignOutcomesIgnoringSession(session) == {"submitted", "rejected"}

\* how a call can end.  With a null session the first statement of the try
\* block reads a property of null: a TypeError, rethrown by the catch, before
\* anything is signed.  With a session the SDK signs and the node executes the
\* transaction or one of them rejects.
SignOutcomes(session) ==
  IF session = NoSession THEN {"typeError"} ELSE {"submitted", "rejected"}

SignTransaction(i, outcome) ==
  /\ route = "home"
  /\ mounted
  /\ user # NoUser
  /\ outcome \in SignOutcomes(GetSession(hook[i]))
  /\ lastOp' = IF outcome = "submitted"
               THEN Op("signTransaction", i, {"signed", "submitted"}, "")
               ELSE Op("signTransaction:failed", i, {},
                       IF outcome = "typeError" THEN ErrTypeError ELSE "rejected")
  /\ UNCHANGED <<buildVars, storeVars, authVars, pageVars>>

\* ---------------------------------------------------------------------
\* Utility functions, called on their own: the prover request of each
\* revision (generateZkLoginProof in apps/wallet/utils/zk-login.ts,
\* getZkProofFromEnoki in apps/wallet/hooks/use-zklogin-session.ts and in
\* unnamed/part_002)
\* ---------------------------------------------------------------------
ProverRevisions == {"zk-login.ts", "use-zklogin-session.ts", "part_002"}

\* answers of the prover: an HTTP response, or no response at all
HttpResponse(status, statusText, body) ==
  [kind |-> "response", ok |-> (status = "200"), status |-> status,
   statusText |-> statusText, body |-> body]
NetworkError == [kind |-> "networkError", ok |-> FALSE, status |-> "", statusText |-> "",
                 body |-> ""]
ProverResponses ==
  {HttpResponse("200", "OK", "proof"),
   HttpResponse("500", "Internal Server Error", "internal error"),
   HttpResponse("429", "Too Many Requests", "slow down"),
   HttpResponse("400", "Bad Request", "invalid jwt"),
   NetworkError}

\* the message of the Error a revision throws for a response that is not ok: a
\* template literal, written as the sequence of its pieces
ProverErrorMessage(rev, resp) ==
  CASE rev = "zk-login.ts" ->
         <<"Prover service error: ", resp.status, " ", resp.statusText, " - ", resp.body>>
    [] rev = "use-zklogin-session.ts" ->
         <<"Enoki API error: ", resp.status, " ", resp.statusText, " - ", resp.body>>
    [] rev = "part_002" ->
         <<"Enoki prover error: ", resp.statusText>>

\* what the prover request of a revision resolves to or throws
ProverResult(rev, mock, resp) ==
  IF rev = "zk-login.ts" /\ mock THEN [kind |-> "proof", proof |-> MockProof]
  ELSE IF resp.kind = "networkError"
  THEN [kind |-> "thrown", message |-> <<"Failed to fetch">>]
  ELSE IF ~resp.ok THEN [kind |-> "thrown", message |-> ProverErrorMessage(rev, resp)]
  ELSE [kind |-> "proof", proof |-> [kind |-> "prover", json |-> resp.body]]

\* A utility call: the history holds the call and its arguments, first without
\* a result, then with what the function returned or threw
Pending == [kind |-> "pending"]

UtilRequest(name, args) ==
  [op |-> name, inst |-> "page", pre |-> FALSE, effects |-> {}, error |-> "",
   arg |-> [args |-> args, result |-> Pending]]

UtilReturn(name, result) ==
  /\ lastOp.op = name
  /\ lastOp.arg.result = Pending
  /\ lastOp' = [lastOp EXCEPT !.arg.result = result]
  /\ UNCHANGED <<buildVars, storeVars, authVars, pageVars>>

\* a call of the utility has returned or thrown
Called(name) == lastOp.op = name /\ lastOp.arg.result # Pending

ProverRequests ==
  {UtilRequest("requestProof", [rev |-> rev, mock |-> mock, response |-> resp]) :
     rev \in ProverRevisions, mock \in BOOLEAN, resp \in ProverResponses}

RequestProof ==
  UtilReturn("requestProof",
    ProverResult(lastOp.arg.args.rev, lastOp.arg.args.mock, lastOp.arg.args.response))

\* ---------------------------------------------------------------------
\* fetchTokenBalances (apps/wallet/utils/coin-gecko.ts, unnamed/part_001).
\* Amounts are integers: a coin's balance is written in thousands of base
\* units, a displayed balance (toFixed(6)) in millionths of a token, a USD
\* value (toFixed(2)) in cents, a price in cents.
\* ---------------------------------------------------------------------
SuiType == "0x2::sui::SUI"
UsdcType == "0x5d4b30::coin::COIN"
WethType == "0xaf8cd5::coin::COIN"
FooType == "0xf00::foo::FOO"

\* TOKEN_METADATA[coinType]
TokenMetadata(coinType) ==
  CASE coinType = SuiType -> [known |-> TRUE, symbol |-> "SUI", name |-> "Sui", decimals |-> 9]
    [] coinType = UsdcType ->
         [known |-> TRUE, symbol |-> "USDC", name |-> "USD Coin", decimals |-> 6]
    [] coinType = WethType ->
         [known |-> TRUE, symbol |-> "WETH", name |-> "Wrapped Ethereum", decimals |-> 8]
    [] OTHER -> [known |-> FALSE, symbol |-> "FOO", name |-> "Unknown FOO", decimals |-> 9]

\* MOCK_PRICES[symbol] || 0, in cents
MockPrice(symbol) ==
  CASE symbol = "SUI" -> 245
    [] symbol = "USDC" -> 100
    [] symbol = "USDT" -> 100
    [] symbol = "WETH" -> 250000
    [] symbol = "BTC" -> 4500000
    [] OTHER -> 0

RECURSIVE Pow10(_)
Pow10(n) == IF n = 0 THEN 1 ELSE 10 * Pow10(n - 1)

\* a / b rounded to the nearest integer, as toFixed rounds
RoundDiv(a, b) == (2 * a + b) \div (2 * b)

\* coins the query can return, and what the query and the steps around it can do
Coins == [coinType : {SuiType, UsdcType, FooType}, balance : {500000, 200000}]
CoinLists == UNION {[1..n -> Coins] : n \in 0..MaxCoins}
CoinQueryOutcomes ==
  {[kind |-> k, data |-> <<>>] : k \in {"normalizeThrows", "queryRejects", "noData"}}
    \cup {[kind |-> "coins", data |-> l] : l \in CoinLists}

\* the loop over coinObjects.data: a Map from coin type to the summed balance,
\* in insertion order
RECURSIVE GroupCoins(_, _)
GroupCoins(data, coinMap) ==
  IF data = <<>> THEN coinMap
  ELSE LET coin == Head(data)
           at == {i \in DOMAIN coinMap : coinMap[i].coinType = coin.coinType}
       IN GroupCoins(Tail(data),
            IF at # {}
            THEN [i \in DOMAIN coinMap |->
                    IF i \in at
                    THEN [coinMap[i] EXCEPT !.totalBalance = @ + coin.balance]
                    ELSE coinMap[i]]
            ELSE Append(coinMap, [coinType |-> coin.coinType,
                                  totalBalance |-> coin.balance]))

\* the TokenBalance pushed for one entry of the Map
ToTokenBalance(e) ==
  LET md == TokenMetadata(e.coinType)
      price == IF md.known THEN MockPrice(md.symbol) ELSE 0
      balance == IF md.decimals >= 9
                 THEN RoundDiv(e.totalBalance, Pow10(md.decimals - 9))
                 ELSE e.totalBalance * Pow10(9 - md.decimals)
  IN [symbol |-> md.symbol, name |-> md.name, balance |-> balance, price |-> price,
      usdValue |-> IF md.known
                   THEN RoundDiv(e.totalBalance * price, Pow10(md.decimals - 3))
                   ELSE 0,
      coinType |-> e.coinType]

\* balances.sort((a, b) => parseFloat(b.usdValue) - parseFloat(a.usdValue)):
\* a stable sort, highest USD value first
RECURSIVE InsertByUsdValue(_, _)
InsertByUsdValue(sorted, b) ==
  IF sorted = <<>> THEN <<b>>
  ELSE IF Head(sorted).usdValue >= b.usdValue
       THEN <<Head(sorted)>> \o InsertByUsdValue(Tail(sorted), b)
       ELSE <<b>> \o sorted

UnsortedBalances(balances) == balances

RECURSIVE SortByUsdValue(_)
SortByUsdValue(balances) ==
  IF balances = <<>> THEN <<>>
  ELSE InsertByUsdValue(SortByUsdValue(SubSeq(balances, 1, Len(balances) - 1)),
                        balances[Len(balances)])

FetchTokenBalancesNoCatch(outcome) ==
  IF outcome.kind # "coins"
  THEN [kind |-> "thrown", value |-> <<>>]
  ELSE LET coinMap == GroupCoins(outcome.data, <<>>)
       IN [kind |-> "returned",
           value |-> SortByUsdValue([i \in DOMAIN coinMap |-> ToTokenBalance(coinMap[i])])]

\* fetchTokenBalances: the try block, and the catch that returns []
FetchTokenBalancesResult(outcome) ==
  IF outcome.kind # "coins"
  THEN [kind |-> "returned", value |-> <<>>]
  ELSE LET coinMap == GroupCoins(outcome.data, <<>>)
       IN [kind |-> "returned",
           value |-> SortByUsdValue([i \in DOMAIN coinMap |-> ToTokenBalance(coinMap[i])])]

BalanceRequests == {UtilRequest("fetchTokenBalances", o) : o \in CoinQueryOutcomes}

FetchTokenBalances ==
  UtilReturn("fetchTokenBalances", FetchTokenBalancesResult(lastOp.arg.args))

\* ---------------------------------------------------------------------
\* fetchTransactions (unnamed/part_001, unnamed/part_003).  A point in time
\* is a day of one year, [month, day]; the time of day is the same throughout.
\* ---------------------------------------------------------------------
Locales == {"en-US", "en-GB"}           \* default locale of the browser
TxDates == {[month |-> 1, day |-> 2], [month |-> 2, day |-> 1], [month |-> 1, day |-> 13]}

\* new Date(Number(txn.timestampMs)).toLocaleString(): the date fields in the
\* order the locale writes them, month first (en-US) or day first (en-GB)
ToLocaleString(date, locale) ==
  IF locale = "en-US" THEN <<date.month, date.day>> ELSE <<date.day, date.month>>

NotANumber == [nan |-> TRUE]

\* new Date(timestamp).getTime(): the string is read with the month first; a
\* month above 12 gives an invalid date, whose time is NaN
GetTime(timestamp) ==
  IF timestamp[1] > 12 THEN NotANumber ELSE [nan |-> FALSE, time |-> timestamp[1] * 100 + timestamp[2]]

\* the comparator of transactions.sort: positive when b is to come before a (a
\* NaN result leaves the two as they are)
NewerFirst(a, b) ==
  LET ta == GetTime(a.timestamp)
      tb == GetTime(b.timestamp)
  IN IF ta.nan \/ tb.nan THEN 0 ELSE tb.time - ta.time

RECURSIVE InsertByTimestamp(_, _)
InsertByTimestamp(sorted, b) ==
  IF sorted = <<>> THEN <<b>>
  ELSE IF NewerFirst(Head(sorted), b) <= 0
       THEN <<Head(sorted)>> \o InsertByTimestamp(Tail(sorted), b)
       ELSE <<b>> \o sorted

RECURSIVE SortByTimestamp(_)
SortByTimestamp(txns) ==
  IF txns = <<>> THEN <<>>
  ELSE InsertByTimestamp(SortByTimestamp(SubSeq(txns, 1, Len(txns) - 1)), txns[Len(txns)])

\* what a transaction query answers: a failure, a few transactions, or (a node
\* that does not honour `limit`) more than ten
QueryAnswers(dir) ==
  {[ok |-> FALSE, data |-> <<>>]}
    \cup {[ok |-> TRUE, data |-> [i \in DOMAIN l |-> [digest |-> <<dir, i>>, date |-> l[i]]]] :
            l \in UNION {[1..n -> TxDates] : n \in 0..MaxTxns}}
    \cup {[ok |-> TRUE,
           data |-> [i \in 1..11 |-> [digest |-> <<dir, i>>, date |-> [month |-> 1, day |-> 2]]]]}

MOCK_TRANSACTIONS ==
  [i \in 1..4 |-> [id |-> <<"mock", i>>, type |-> "mock", timestamp |-> <<0, 0>>]]

\* the Transaction pushed for one answer of a query
ToTransaction(txn, type, locale) ==
  [id |-> txn.digest, type |-> type, timestamp |-> ToLocaleString(txn.date, locale)]

\* fetchTransactions: both queries awaited with Promise.all, the two loops,
\* the sort, slice(0, 20); the catch returns MOCK_TRANSACTIONS
FetchTransactionsResult(sent, received, locale) ==
  IF ~sent.ok \/ ~received.ok THEN MOCK_TRANSACTIONS
  ELSE LET pushed ==
             [i \in DOMAIN sent.data |-> ToTransaction(sent.data[i], "send", locale)]
               \o [i \in DOMAIN received.data |->
                     ToTransaction(received.data[i], "receive", locale)]
           sorted == SortByTimestamp(pushed)
       IN SubSeq(sorted, 1, IF Len(sorted) < 20 THEN Len(sorted) ELSE 20)

TransactionRequests ==
  {UtilRequest("fetchTransactions", [sent |-> s, received |-> r, locale |-> l]) :
     s \in QueryAnswers("sent"), r \in QueryAnswers("received"), l \in Locales}

FetchTransactions ==
  UtilReturn("fetchTransactions",
    [kind |-> "returned",
     value |-> FetchTransactionsResult(lastOp.arg.args.sent, lastOp.arg.args.received,
                                       lastOp.arg.args.locale)])

\* ---------------------------------------------------------------------
\* signTransactionWithZkLogin (unnamed/part_003, unnamed/part_002), called
\* on its own with a session and a transaction: the statements of its try
\* block, each of which can throw or reject
\* ---------------------------------------------------------------------
SignSteps ==
  <<"fromSecretKey", "setSender", "sign", "getZkLoginSignature", "executeTransactionBlock">>

\* the sessions handed to the function
SignSessions ==
  [ephemeralKeyPair : 1..2, zkProof : {[userSignature |-> "sender", addressSeed |-> "seed"]},
   maxEpoch : {2, 3}]

\* what one statement computes from the session and the values computed before
SignStepValue(stmt, session, env) ==
  CASE stmt = "fromSecretKey" -> [signer |-> session.ephemeralKeyPair]
    [] stmt = "setSender" -> [sender |-> session.zkProof.userSignature]
    [] stmt = "sign" -> [bytes |-> <<"tx", env.setSender.sender>>,
                         userSignature |-> <<"sig", env.fromSecretKey.signer>>]
    [] stmt = "getZkLoginSignature" ->
         [inputs |-> session.zkProof, maxEpoch |-> session.maxEpoch,
          userSignature |-> env.sign.userSignature]
    [] OTHER -> [digest |-> <<"digest", env.sign.bytes, env.getZkLoginSignature>>]

\* the try block from statement n on: a statement that throws ends it in the
\* catch, which rethrows; after the last statement result.digest is returned
RECURSIVE SignFrom(_, _, _, _, _)
SignFrom(n, session, failAt, env, done) ==
  IF n > Len(SignSteps) THEN
    [kind |-> "returned", value |-> env.executeTransactionBlock.digest, steps |-> done]
  ELSE IF failAt = n THEN
    [kind |-> "threw", error |-> <<"error of", SignSteps[n]>>,
     steps |-> Append(done, SignSteps[n])]
  ELSE
    SignFrom(n + 1, session, failAt,
             [s \in DOMAIN env \cup {SignSteps[n]} |->
                IF s = SignSteps[n] THEN SignStepValue(s, session, env) ELSE env[s]],
             Append(done, SignSteps[n]))

\* a catch that swallows the error and goes on with the statements that follow
SignTransactionSwallowing(session, failAt) ==
  SignFrom(1, session, 0, << >>, << >>)

SignTransactionResult(session, failAt) ==
  SignFrom(1, session, failAt, << >>, << >>)

SignRequests ==
  {UtilRequest("signTransactionWithZkLogin", [session |-> s, failAt |-> f]) :
     s \in SignSessions, f \in 0..Len(SignSteps)}

SignTransactionWithZkLogin ==
  UtilReturn("signTransactionWithZkLogin",
    SignTransactionResult(lastOp.arg.args.session, lastOp.arg.args.failAt))

\* ---------------------------------------------------------------------
\* Browser storage that throws (storage disabled, quota exceeded): the
\* sessionStorage helpers of apps/wallet/utils/zk-login.ts and the
\* localStorage statements of AuthProvider (apps/wallet/contexts/
\* auth-context.tsx, unnamed/part_003), each called on its own
\* ---------------------------------------------------------------------
StorageFunctions ==
  {"getSessionStorageItem", "setSessionStorageItem", "authInit", "login", "logout"}

\* the functions whose storage statement stands inside a try block
StorageCallCaught(fn) == fn \in {"getSessionStorageItem", "setSessionStorageItem"}

\* what the function has done to the component state before its storage
\* statement runs
StateSetBefore(fn) ==
  CASE fn = "login" -> {"user"}
    [] fn = "logout" -> {"user"}
    [] OTHER -> {}

StorageCallResult(fn, fault, stored) ==
  IF fault = "throws" /\ ~StorageCallCaught(fn) THEN
    [kind |-> "threw", error |-> "storage error", stateSet |-> StateSetBefore(fn)]
  ELSE IF fault = "throws" THEN
    [kind |-> "returned", value |-> Absent, stateSet |-> {}]
  ELSE
    [kind |-> "returned",
     value |-> IF fn \in {"getSessionStorageItem", "authInit"} THEN stored ELSE Absent,
     stateSet |-> CASE fn = "authInit" ->
                         IF stored = Absent THEN {"isLoading"} ELSE {"user", "isLoading"}
                    [] OTHER -> StateSetBefore(fn)]

StorageRequests ==
  {UtilRequest("storageAccess", [fn |-> fn, fault |-> fault, stored |-> stored]) :
     fn \in StorageFunctions, fault \in {"none", "throws"}, stored \in {Absent, <<"stored">>}}

StorageAccess ==
  UtilReturn("storageAccess",
    StorageCallResult(lastOp.arg.args.fn, lastOp.arg.args.fault, lastOp.arg.args.stored))

\* ---------------------------------------------------------------------
\* ActivityPage (unnamed/part_005): the effect on [user] that loads the
\* transactions of the user, and the answers of its fetchTransactions calls
\* ---------------------------------------------------------------------
NoTransactions == [owner |-> "", kind |-> "empty"]   \* useState<Transaction[]>([])

ActivityUsers ==
  {[address |-> a, provider |-> "google", sub |-> a] : a \in {"0xA", "0xB", "0xC"}}

\* what fetchTransactions(address) resolves to: the transactions of the address,
\* or the mock dataset when a query failed
FetchedTransactions(address, ok) ==
  IF ok THEN [owner |-> address, kind |-> "chain"] ELSE [owner |-> "", kind |-> "mock"]

\* the effect body for the user u: nothing to load without a user, else
\* loadTransactions() is started
ActivityEffect(u) ==
  IF u = NoUser
  THEN /\ activityLoading' = FALSE
       /\ UNCHANGED <<transactions, fetches>>
  ELSE /\ fetches' = Append(fetches, u.address)
       /\ UNCHANGED <<transactions, activityLoading>>

\* the page is mounted under the provider, whose mount effect has restored the
\* saved user or found none
ActivityMount(u) ==
  /\ ~mounted
  /\ mounted' = TRUE
  /\ isLoading' = FALSE
  /\ user' = u
  /\ ls' = IF u = NoUser THEN Absent ELSE <<UserJson(u)>>
  /\ ActivityEffect(u)
  /\ lastOp' = Op("activityMount", "page", {}, "")
  /\ UNCHANGED <<variant, useMockProofs, storeVars, pageVars>>

\* login(userData) of the auth context while the page is mounted: the user
\* changes and the effect runs again
ActivityLogin(u) ==
  /\ mounted
  /\ u # user
  /\ Len(fetches) < MaxInFlight
  /\ LoginFn(u)
  /\ ActivityEffect(u)
  /\ lastOp' = Op("activityLogin", "page", {}, "")
  /\ UNCHANGED <<variant, useMockProofs, storeVars, pageVars, isLoading, mounted>>

\* logout() of the auth context while the page is mounted
ActivityLogout ==
  /\ mounted
  /\ user # NoUser
  /\ user' = NoUser
  /\ ls' = Absent
  /\ ActivityEffect(NoUser)
  /\ lastOp' = Op("activityLogout", "page", {}, "")
  /\ UNCHANGED <<variant, useMockProofs, storeVars, pageVars, isLoading, mounted>>

\* loadTransactions from the answer of fetchTransactions on: setTransactions,
\* then setLoading(false) in the finally block
FetchTransactionsReply(i, ok) ==
  /\ i \in 1..Len(fetches)
  /\ transactions' = FetchedTransactions(fetches[i], ok)
  /\ activityLoading' = FALSE
  /\ fetches' = RemoveAt(fetches, i)
  /\ lastOp' = Op("loadTransactions", "page", {}, "")
  /\ UNCHANGED <<variant, useMockProofs, storeVars, authVars, pageVars>>

vars == <<variant, ss, ls, hook, user, isLoading, mounted, useMockProofs, route,
          isConnecting, idToken, oauthData, showPinInput, loginError,
          isProcessingOAuth, calls, saltPin, confirmPin, step, saltError, saltLoading,
          chosen, firstLogin, transactions, activityLoading, fetches, lastOp>>

InitState ==
  /\ variant \in Variants
  /\ ss = EmptyStorage
  /\ ls \in {Absent, <<CorruptRecord>>}
  /\ hook = [i \in Instances |-> MountHook(EmptyStorage)]
  /\ user = NoUser
  /\ isLoading = TRUE
  /\ mounted = FALSE
  /\ useMockProofs \in (IF variant = "salt" THEN {FALSE} ELSE BOOLEAN)
  /\ route = "login"
  /\ isConnecting = "null"
  /\ idToken = NoToken
  /\ oauthData = NoData
  /\ showPinInput = FALSE
  /\ loginError = ""
  /\ isProcessingOAuth = FALSE
  /\ calls = <<>>
  /\ saltPin = ""
  /\ confirmPin = ""
  /\ step = "setup"
  /\ saltError = ""
  /\ saltLoading = FALSE
  /\ chosen = ""
  /\ firstLogin = NoLogin
  /\ transactions = NoTransactions
  /\ activityLoading = TRUE
  /\ fetches = <<>>

Init ==
  /\ InitState
  /\ lastOp = [op |-> "pageLoad", inst |-> "page", pre |-> FALSE, effects |-> {},
               error |-> "", arg |-> NoSession]

NextApi ==
  \/ \E s \in SessionValues : SetSession("page", s)
  \/ \E i \in Instances : ClearSession(i)
  \/ \E v \in KeyStrings : SetEphemeralKeyPair("page", v)
  \/ \E v \in {NullProof, MockProof} : SetZkProof("page", v)
  \/ \E v \in EpochBounds : SetMaxEpoch("page", v)
  \/ ClearEphemeralKeyPair("page")
  \/ ClearZkProof("page")
  \/ ClearMaxEpoch("page")
  \/ \E p \in {"", "123456"} : SetUserSaltValue("page", p)
  \/ ClearUserSaltValue("page")
  \/ \E i \in Instances : Remount(i)

SpecApi == Init /\ [][NextApi]_vars

\* the wallet as the user drives it
Next ==
  \/ AuthInitEffect
  \/ \E r \in {"login", "home"}, tok \in Tokens \cup {NoToken} : PageLoad(r, tok)
  \/ \E r \in {"login", "home"} : ReopenTab(r)
  \/ LayoutRedirect
  \/ Logout
  \/ \E k \in Keys : ClickGoogle(k)
  \/ \E i \in 1..MaxInFlight, reply \in EpochReplies : InitEpochReply(i, reply)
  \/ \E i \in 1..MaxInFlight, ok \in BOOLEAN : CallbackImportReply(i, ok)
  \/ HandlePinBack
  \/ \E pin \in Pins, k \in Keys : HandlePinComplete(pin, k)
  \/ \E i \in 1..MaxInFlight, reply \in EpochReplies : PinEpochReply(i, reply)
  \/ \E i \in 1..MaxInFlight, ok \in BOOLEAN : PinProverReply(i, ok)
  \/ \E outcome \in {"submitted", "rejected", "typeError"} : SignTransaction("page", outcome)

Spec == Init /\ [][Next]_vars

\* every awaited call of the login page settles: the epoch query and the
\* prover answer or fail, the dynamic import resolves or rejects, and the
\* continuation of the handler that awaits it then runs
ExternalCallsAnswer ==
  /\ WF_vars(\E i \in 1..MaxInFlight, reply \in EpochReplies : InitEpochReply(i, reply))
  /\ WF_vars(\E i \in 1..MaxInFlight, ok \in BOOLEAN : CallbackImportReply(i, ok))
  /\ WF_vars(\E i \in 1..MaxInFlight, reply \in EpochReplies : PinEpochReply(i, reply))
  /\ WF_vars(\E i \in 1..MaxInFlight, ok \in BOOLEAN : PinProverReply(i, ok))

\* the login flow of the wallet in one tab, from page load to home and back
InitLogin == Init /\ variant = "wallet" /\ ls = Absent

NextLogin ==
  \/ AuthInitEffect
  \/ \E r \in {"login", "home"}, tok \in Tokens \cup {NoToken} : PageLoad(r, tok)
  \/ LayoutRedirect
  \/ Logout
  \/ \E k \in Keys : ClickGoogle(k)
  \/ \E i \in 1..MaxInFlight, reply \in EpochReplies : InitEpochReply(i, reply)
  \/ \E i \in 1..MaxInFlight, ok \in BOOLEAN : CallbackImportReply(i, ok)
  \/ HandlePinBack
  \/ \E pin \in {"", "123456"}, k \in Keys : HandlePinComplete(pin, k)
  \/ \E i \in 1..MaxInFlight, reply \in EpochReplies : PinEpochReply(i, reply)
  \/ \E i \in 1..MaxInFlight, ok \in BOOLEAN : PinProverReply(i, ok)

FairSpec == InitLogin /\ [][NextLogin]_vars /\ ExternalCallsAnswer

\* the revision with a user secret, as the user drives its salt pages
Routes == {"login", "home", "setup-salt", "verify-salt"}

InitSalt == Init /\ variant = "salt"

NextSalt ==
  \/ AuthInitEffect
  \/ \E r \in Routes, tok \in Tokens \cup {NoToken} : PageLoad(r, tok)
  \/ \E r \in Routes : ReopenTab(r)
  \/ LayoutRedirect
  \/ \E i \in 1..MaxInFlight, ok \in BOOLEAN : JwtDecodeReply(i, ok)
  \/ \E p \in EnteredPins : SetupPinComplete(p)
  \/ HandleNext
  \/ HandleBack
  \/ HandleConfirm
  \/ \E i \in 1..MaxInFlight, outcome \in ServiceOutcomes, k \in Keys, e \in ChainEpochs :
       CompleteZkLogin(i, outcome, k, e)
  \/ \E p \in EnteredPins : VerifyPinComplete(p)
  \/ HandleVerify
  \/ VerifyHandleBack

SpecSalt == InitSalt /\ [][NextSalt]_vars

\* the activity page under users that log in and out
InitActivity == Init /\ variant = "wallet" /\ ~useMockProofs /\ ls = Absent

NextActivity ==
  \/ \E u \in ActivityUsers \cup {NoUser} : ActivityMount(u)
  \/ \E u \in ActivityUsers : ActivityLogin(u)
  \/ ActivityLogout
  \/ \E i \in 1..MaxInFlight, ok \in BOOLEAN : FetchTransactionsReply(i, ok)

SpecActivity == InitActivity /\ [][NextActivity]_vars

\* the utility functions, each applied to any of its inputs
InitUtils ==
  /\ InitState
  /\ variant = "wallet" /\ ~useMockProofs /\ ls = Absent
  /\ lastOp \in ProverRequests \cup BalanceRequests \cup TransactionRequests
                 \cup SignRequests \cup StorageRequests

NextUtils ==
  \/ RequestProof
  \/ FetchTokenBalances
  \/ FetchTransactions
  \/ SignTransactionWithZkLogin
  \/ StorageAccess

SpecUtils == InitUtils /\ [][NextUtils]_vars
\* =====================================================================
\* Properties
\* =====================================================================
PersistedSessionKeys == {"ephemeralKeyPair", "zkProof", "maxEpoch"}

AllFieldsPresent(h) ==
  /\ h.ephemeralKeyPair # EmptyString
  /\ h.zkProof # NullProof
  /\ h.maxEpoch # 0
  /\ variant = "salt" => h.userSalt # ""

\* C1: in every reachable state of the session store, getSession() of an
\* instance is non-null exactly when ephemeralKeyPair is non-empty, zkProof is
\* non-null, maxEpoch is non-zero and, in the revision with a user secret,
\* userSalt is non-empty; it is null in every other state.
C1_GetSessionIffAllPresent ==
  \A i \in Instances :
    (GetSession(hook[i]) # NoSession) <=> AllFieldsPresent(hook[i])

C1_Witness ==
  /\ variant = "salt"
  /\ lastOp.op = "setUserSaltValue"
  /\ ~lastOp.pre
  /\ GetSession(hook["page"]) # NoSession

\* C2: right after clearSession() on an instance, getSession() of that instance
\* is null, every persisted key is removed from sessionStorage and, in the
\* revision with a user secret, the in-memory secret is empty and its presence
\* flag is reset.
C2_ClearThenGetIsNull ==
  lastOp.op = "clearSession" =>
    /\ GetSession(hook[lastOp.inst]) = NoSession
    /\ \A k \in SessionKeys : ss[k] = Absent
    /\ hook[lastOp.inst].userSalt = ""
    /\ hook[lastOp.inst].hasUserSalt = FALSE

C2_Witness ==
  /\ variant = "salt"
  /\ lastOp.op = "clearSession"
  /\ lastOp.inst = "page"
  /\ lastOp.pre

SessionComplete(s) ==
  /\ s.ephemeralKeyPair # EmptyString
  /\ s.zkProof # NullProof
  /\ s.maxEpoch # 0
  /\ variant = "salt" => s.userSalt # ""

\* C3 as stated: for every session value S, setSession(S) followed by
\* getSession() yields S.
C3_Original ==
  lastOp.op = "setSession" => GetSession(hook[lastOp.inst]) = lastOp.arg

\* C3 amended: setSession(S) followed by getSession() yields S when every field
\* of S is non-empty / non-zero, and null when some field of S is empty or zero,
\* whatever the store held before.
C3_RoundTrip ==
  lastOp.op = "setSession" =>
    GetSession(hook[lastOp.inst]) =
      (IF SessionComplete(lastOp.arg) THEN lastOp.arg ELSE NoSession)

C3_Witness ==
  /\ lastOp.op = "setSession"
  /\ GetSession(hook["page"]) # NoSession
  /\ GetSession(hook["page"]).maxEpoch = MaxChainEpoch + 2

\* C4: in every reachable state isValid() of an instance is true exactly when
\* its getSession() is non-null.
C4_IsValidAgreesWithGet ==
  \A i \in Instances : IsValid(hook[i]) <=> (GetSession(hook[i]) # NoSession)

C4_Witness ==
  /\ lastOp.op = "setMaxEpoch"
  /\ ~lastOp.pre
  /\ IsValid(hook["page"])
\* C5 as stated: right after logout() the in-memory user is null, the durable
\* 'sui-wallet-user' record is absent and the session store is cleared: no
\* session key is left in sessionStorage and getSession() returns null.
C5_LogoutClearsEverything ==
  lastOp.op = "logout" =>
    /\ user = NoUser
    /\ ls = Absent
    /\ \A k \in PersistedSessionKeys : ss[k] = Absent
    /\ \A i \in Instances : GetSession(hook[i]) = NoSession

\* a login attempt has just failed in one of the steps from token decoding to
\* address derivation
LoginStepFailed ==
  \/ lastOp.op = "handlePinComplete:failed"
  \/ lastOp.op = "handleOAuthCallback" /\ lastOp.error # ErrNone

FlowIdle == isConnecting = "null" /\ ~isProcessingOAuth /\ calls = <<>>

SessionFields(store, hooks) ==
  [k \in PersistedSessionKeys |-> <<store[k], [i \in Instances |-> hooks[i][k]]>>]

C7_CompleteStoresSessionAndLogsIn ==
  lastOp.op = "handlePinComplete:complete" =>
    /\ \A k \in PersistedSessionKeys : ss[k] # Absent
    /\ IsValid(hook["page"])
    /\ GetSession(hook["page"]) =
         [ephemeralKeyPair |-> ss["ephemeralKeyPair"][1], zkProof |-> ss["zkProof"][1],
          maxEpoch |-> ss["maxEpoch"][1]]
    /\ user # NoUser
    /\ user.sub = idToken.sub
    /\ ls = <<UserJson(user)>>
    /\ FlowIdle
    /\ route = "home"

C7_Witness ==
  /\ lastOp.op = "handlePinComplete:complete"
  /\ ~useMockProofs
  /\ hook["page"].zkProof.kind = "prover"
  /\ user # NoUser

\* C8 as stated: a click on the Google button whose epoch query succeeds ends
\* with the browser redirected to the OAuth URL and no login error shown.
C8_ClickRedirects ==
  (lastOp.op = "handleOAuthLogin" /\ lastOp.error # ErrEpochQuery) =>
    /\ route = "oauth"
    /\ "redirect" \in lastOp.effects
    /\ loginError = ""

\* the token decodes but carries no subject or no audience claim
LacksClaim(tok) == tok # NoToken /\ tok.ok /\ (tok.sub = "" \/ tok.aud.kind = "missing")

\* C9: with an identity token that lacks the subject or the audience claim,
\* handlePinComplete fails with 'Invalid JWT: missing required fields' in its
\* first step: no epoch query and no prover request is started, no key is
\* generated, nothing is written to the session store, and the error is shown.
C9_MissingClaimFailsEarly ==
  [][(/\ LacksClaim(idToken)
      /\ oauthData # NoData
      /\ \E pin \in Pins, k \in Keys : HandlePinComplete(pin, k))
     => /\ lastOp'.error = ErrMissingFields
        /\ lastOp'.effects = {}
        /\ calls' = calls
        /\ ss' = ss
        /\ hook' = hook
        /\ loginError' = MsgAuthFailed
        /\ ~isProcessingOAuth']_vars

C9_Witness ==
  /\ lastOp.op = "handlePinComplete:failed"
  /\ lastOp.error = ErrMissingFields
  /\ idToken = NoSubToken
  /\ loginError = MsgAuthFailed

\* C10: at most one login attempt is in flight; while one is, neither the
\* Google button nor the PIN form can start another (the button is disabled
\* while isConnecting is set, the spinner replaces the page while a proof is
\* being obtained).
C10_OneAttemptInFlight ==
  /\ Len(calls) <= 1
  /\ calls # <<>> =>
       /\ ~(LoginButtonsShown /\ ~ButtonDisabled)
       /\ ~SaltFormShown
  /\ isConnecting # "null" => ButtonDisabled

C10_Witness ==
  /\ Len(calls) = 1
  /\ calls[1].fn = "handleOAuthLogin"
  /\ isConnecting = "google"
  /\ LoginButtonsShown

\* what sessionStorage holds is never the user secret: nothing is stored under
\* 'userSalt', the salt flag is a boolean, a stored proof has no salt field
StorageHoldsNoSecret(store) ==
  /\ store["userSalt"] = Absent
  /\ store["hasUserSalt"] # Absent => store["hasUserSalt"][1] \in BOOLEAN
  /\ store["zkProof"] # Absent =>
       DOMAIN store["zkProof"][1] \cap {"salt", "userSalt"} = {}

\* C11: no operation of the session store writes the user secret to
\* sessionStorage or localStorage (only the boolean flag that one was set is
\* persisted); the secret lives in the instance's memory, so an instance mounted
\* again starts with an empty secret, and where the session carries a secret no
\* session is valid until the secret has been supplied again.
C11_SecretInMemoryOnly ==
  /\ StorageHoldsNoSecret(ss)
  /\ ls \in {Absent, <<CorruptRecord>>}
  /\ lastOp.op = "remount" =>
       /\ hook[lastOp.inst].userSalt = ""
       /\ variant = "salt" =>
            GetSession(hook[lastOp.inst]) = NoSession /\ ~IsValid(hook[lastOp.inst])
  /\ (variant = "salt" /\ IsValid(hook["page"])) => hook["page"].userSalt # ""

C11_Witness ==
  /\ variant = "salt"
  /\ lastOp.op = "remount"
  /\ lastOp.inst = "page"
  /\ lastOp.pre
  /\ ss["hasUserSalt"] = <<TRUE>>
  /\ hook["page"].hasUserSalt
  /\ hook["page"].userSalt = ""
  /\ \A k \in PersistedSessionKeys : ss[k] # Absent
  /\ hook["page"].maxEpoch # 0
  /\ GetSession(hook["page"]) = NoSession

\* a token that carries the claims the login needs
UsableToken(tok) == tok.ok /\ tok.sub # "" /\ FirstAud(tok.aud) # ""

\* C12: in the setup flow, once a 6-digit PIN has been entered and confirmed
\* with an id token present, the PIN is stored as the user secret; and when
\* the token is usable and the services answer, the flow reaches Complete: the
\* session is stored with that PIN and the user is logged in on the home page.
C12_SetupReachesComplete ==
  /\ lastOp.op = "handleConfirm:start" =>
       /\ hook["page"].userSalt = chosen
       /\ Len(chosen) = 6
       /\ hook["page"].hasUserSalt
  /\ (/\ lastOp.op \in {"completeZkLogin", "completeZkLogin:failed"}
      /\ lastOp.arg.services = "ok"
      /\ UsableToken(lastOp.arg.token)) =>
       /\ lastOp.op = "completeZkLogin"
       /\ user # NoUser
       /\ route = "home"
       /\ GetSession(hook["page"]) # NoSession
       /\ hook["page"].userSalt = lastOp.arg.pin

\* C13: on the verification page, a returning user whose secret flag is set
\* and who enters exactly the PIN chosen at setup passes verification and is
\* sent on to the login page, without an error.
C13_ChosenPinPassesVerification ==
  (/\ lastOp.op \in {"handleVerify", "handleVerify:failed"}
   /\ ss["hasUserSalt"] = <<TRUE>>
   /\ lastOp.arg.pin = chosen) =>
    /\ lastOp.op = "handleVerify"
    /\ route = "login"
    /\ saltError = ""

ValidationFailures == {"handleNext:failed", "handleConfirm:failed", "handleVerify:failed"}

\* C14: a validation failure on a salt page (a PIN that is not 6 digits long,
\* a confirmation that differs from the PIN, a re-entered PIN that differs
\* from the stored secret) shows its error and changes nothing else: the page
\* and its step stay, the stored secret, sessionStorage, the saved identity
\* and the pending calls are as before (no proof request is started), and the
\* page accepts another attempt.
C14_ValidationFailureIsInert ==
  [][lastOp'.op \in ValidationFailures =>
       /\ lastOp'.error \in {MsgSixDigits, MsgPinsDiffer, MsgIncorrectPin, MsgNoSalt}
       /\ saltError' = lastOp'.error
       /\ step' = step
       /\ route' = route
       /\ ss' = ss
       /\ hook' = hook
       /\ ls' = ls
       /\ user' = user
       /\ calls' = calls
       /\ ~saltLoading'
       /\ mounted' /\ ~isLoading']_vars

C14_Witness ==
  /\ lastOp.op = "handleConfirm:failed"
  /\ saltError = MsgPinsDiffer
  /\ step = "confirm"
  /\ saltPin = "123456"
  /\ confirmPin = "654321"
  /\ ~hook["page"].hasUserSalt
  /\ oauthData # NoData
  /\ calls = <<>>

\* C18: the saved identity and the session store are independent: reopening
\* the tab empties the session store and leaves the identity, which the auth
\* context then restores; and whenever the store yields no session, an attempt
\* to sign a transaction fails before anything is signed or submitted.  A
\* transaction is submitted only with the proof of a completed login in the
\* session store.
C18_NoSessionNoTransaction ==
  /\ lastOp.op = "reopenTab" =>
       /\ \A k \in StorageKeys : ss[k] = Absent
       /\ \A i \in Instances : GetSession(hook[i]) = NoSession
  /\ (lastOp.op \in {"signTransaction", "signTransaction:failed"} /\ ~lastOp.pre) =>
       /\ lastOp.op = "signTransaction:failed"
       /\ lastOp.error = ErrTypeError
       /\ lastOp.effects = {}
  /\ "submitted" \in lastOp.effects =>
       /\ \A k \in PersistedSessionKeys : ss[k] # Absent
       /\ firstLogin # NoLogin

C18_Witness ==
  /\ lastOp.op = "signTransaction:failed"
  /\ lastOp.error = ErrTypeError
  /\ user # NoUser
  /\ ls = <<UserJson(user)>>
  /\ ss = EmptyStorage
  /\ GetSession(hook["page"]) = NoSession
  /\ firstLogin # NoLogin

\* two completed logins of the same OAuth principal
SamePrincipal(a, b) == a.sub = b.sub /\ a.aud = b.aud

\* C19: a login that supplies the same secret, subject and audience as the
\* first login of this browser derives the same address, whatever fresh key,
\* epoch bound and proof it ran with; the address is the one the seed of
\* (secret, 'sub', subject, audience) gives.
C19_SameSecretSameAddress ==
  lastOp.op = "handlePinComplete:complete" =>
    /\ lastOp.arg.address =
         GenerateSuiAddress(NullProof,
           DecimalString(GenAddressSeed(BigIntOf(lastOp.arg.pin), "sub",
                                        lastOp.arg.sub, lastOp.arg.aud)))
    /\ user.address = lastOp.arg.address
    /\ (SamePrincipal(lastOp.arg, firstLogin) /\ lastOp.arg.pin = firstLogin.pin) =>
         lastOp.arg.address = firstLogin.address

C19_Witness ==
  /\ lastOp.op = "handlePinComplete:complete"
  /\ SamePrincipal(lastOp.arg, firstLogin)
  /\ lastOp.arg.pin = firstLogin.pin
  /\ lastOp.arg.maxEpoch # firstLogin.maxEpoch
  /\ ~useMockProofs
  /\ user.address = firstLogin.address

C16_LoginPersists ==
  [][/\ lastOp'.op = "handlePinComplete:complete" =>
          /\ user' # NoUser
          /\ user'.address = lastOp'.arg.address
          /\ ls' = <<UserJson(user')>>
     /\ (ls # Absent /\ Parsable(ls[1]) /\ ls' # ls) =>
          lastOp'.op \in {"handlePinComplete:complete", "logout"}
     /\ (lastOp'.op = "authInit" /\ ls # Absent /\ Parsable(ls[1])) =>
          /\ user' = ls[1].json
          /\ user' # NoUser
          /\ ls' = ls]_vars

C16_Witness ==
  /\ lastOp.op = "authInit"
  /\ "restored" \in lastOp.effects
  /\ firstLogin # NoLogin
  /\ user # NoUser
  /\ user.address = firstLogin.address
  /\ ss["zkProof"] = Absent

\* C17: isAuthenticated is true exactly when user is non-null, and isLoading is
\* true exactly while the mount effect of the running document has not run yet:
\* once it has run, isLoading is false after every login and logout.
C17_AuthFlags ==
  /\ IsAuthenticated <=> user # NoUser
  /\ isLoading <=> ~mounted
  /\ lastOp.op \in {"handlePinComplete:complete", "logout"} => ~isLoading

C17_Witness ==
  /\ lastOp.op = "logout"
  /\ ~isLoading
  /\ ~IsAuthenticated

\* C21: when the prover answers with a status that is not 2xx, the proof
\* request of every revision throws (it returns no proof) an error whose message
\* contains the HTTP status code and the text of the response body.
C21_ProverErrorCarriesStatusAndBody ==
  (/\ Called("requestProof")
   /\ lastOp.arg.args.response.kind = "response"
   /\ ~lastOp.arg.args.response.ok
   /\ ~(lastOp.arg.args.rev = "zk-login.ts" /\ lastOp.arg.args.mock)) =>
    /\ lastOp.arg.result.kind = "thrown"
    /\ \E i \in DOMAIN lastOp.arg.result.message :
         lastOp.arg.result.message[i] = lastOp.arg.args.response.status
    /\ \E i \in DOMAIN lastOp.arg.result.message :
         lastOp.arg.result.message[i] = lastOp.arg.args.response.body

\* C22: fetchTokenBalances never throws: when the address normalization or the
\* coin query fails, or the answer is not what the loop expects, it returns the
\* empty list, the same value it returns for an owner without coins.
C22_BalancesNeverThrow ==
  Called("fetchTokenBalances") =>
    /\ lastOp.arg.result.kind = "returned"
    /\ lastOp.arg.args.kind # "coins" =>
         /\ lastOp.arg.result.value = <<>>
         /\ lastOp.arg.result = FetchTokenBalancesResult([kind |-> "coins", data |-> <<>>])

C22_Witness ==
  /\ Called("fetchTokenBalances")
  /\ lastOp.arg.args.kind = "queryRejects"
  /\ lastOp.arg.result.kind = "returned"
  /\ lastOp.arg.result.value = <<>>

\* the sum of the balances of the coins of one type in a list
RECURSIVE SumOfType(_, _)
SumOfType(data, coinType) ==
  IF data = <<>> THEN 0
  ELSE (IF Head(data).coinType = coinType THEN Head(data).balance ELSE 0)
       + SumOfType(Tail(data), coinType)

\* C23: for every list of coin objects the query returns, fetchTokenBalances
\* returns one entry for each coin type in the list and no other, whose balance
\* is the sum of the balances of the coins of that type (scaled by the type's
\* decimals); an entry of an unknown type has price 0 and USD value 0.00; and
\* the entries are in order of USD value, highest first.
C23_BalancesAggregatedAndSorted ==
  (Called("fetchTokenBalances") /\ lastOp.arg.args.kind = "coins") =>
    LET data == lastOp.arg.args.data
        out == lastOp.arg.result.value
    IN /\ {out[i].coinType : i \in DOMAIN out} = {data[i].coinType : i \in DOMAIN data}
       /\ \A i, j \in DOMAIN out : out[i].coinType = out[j].coinType => i = j
       /\ \A i \in DOMAIN out :
            /\ out[i].balance =
                 ToTokenBalance([coinType |-> out[i].coinType,
                                 totalBalance |-> SumOfType(data, out[i].coinType)]).balance
            /\ out[i].balance = SumOfType(data, out[i].coinType)
                                  * (IF out[i].coinType = UsdcType THEN 1000 ELSE 1)
            /\ ~TokenMetadata(out[i].coinType).known =>
                 out[i].price = 0 /\ out[i].usdValue = 0
       /\ \A i, j \in DOMAIN out : i < j => out[i].usdValue >= out[j].usdValue

C23_Witness ==
  /\ Called("fetchTokenBalances")
  /\ lastOp.arg.args.kind = "coins"
  /\ lastOp.arg.args.data = <<[coinType |-> FooType, balance |-> 200000],
                              [coinType |-> SuiType, balance |-> 500000]>>
  /\ Len(lastOp.arg.result.value) = 2
  /\ lastOp.arg.result.value[1].coinType = SuiType
  /\ lastOp.arg.result.value[1].usdValue = 123

\* the point in time of the transaction with a digest, among the answers of
\* the two queries
DateOf(digest, args) ==
  LET all == args.sent.data \o args.received.data
  IN all[CHOOSE i \in DOMAIN all : all[i].digest = digest].date

\* C24: fetchTransactions returns the transactions of both queries merged,
\* ordered by timestamp newest first, and never more than 20 of them; when
\* either query fails it returns the fixed dataset of four records and does
\* not throw.
C24_TransactionsMergedNewestFirst ==
  Called("fetchTransactions") =>
    LET args == lastOp.arg.args
        out == lastOp.arg.result.value
    IN /\ lastOp.arg.result.kind = "returned"
       /\ Len(out) <= 20
       /\ (~args.sent.ok \/ ~args.received.ok) => out = MOCK_TRANSACTIONS /\ Len(out) = 4
       /\ (args.sent.ok /\ args.received.ok) =>
            /\ Len(args.sent.data) + Len(args.received.data) <= 20 =>
                 {out[i].id : i \in DOMAIN out}
                   = {args.sent.data[i].digest : i \in DOMAIN args.sent.data}
                       \cup {args.received.data[i].digest : i \in DOMAIN args.received.data}
            /\ \A i, j \in DOMAIN out :
                 i < j =>
                   LET a == DateOf(out[i].id, args)
                       b == DateOf(out[j].id, args)
                   IN a.month * 100 + a.day >= b.month * 100 + b.day
\* C25: signTransactionWithZkLogin runs its statements in order (key from the
\* stored bytes, sender, signature by that key, zkLogin signature from the
\* stored proof, the epoch bound and that signature, submission); it returns
\* the digest only when all five ran, the submission last; a statement that
\* fails is the last one executed and its error is thrown to the caller
C25_SignStepsInOrderOrRethrow ==
  Called("signTransactionWithZkLogin") =>
    LET a == lastOp.arg.args
        r == lastOp.arg.result
    IN /\ r.steps = SubSeq(SignSteps, 1, Len(r.steps))
       /\ IF a.failAt = 0
          THEN /\ r.kind = "returned"
               /\ r.steps = SignSteps
               /\ r.value = <<"digest", <<"tx", a.session.zkProof.userSignature>>,
                              [inputs |-> a.session.zkProof, maxEpoch |-> a.session.maxEpoch,
                               userSignature |-> <<"sig", a.session.ephemeralKeyPair>>]>>
          ELSE /\ r.kind = "threw"
               /\ r.error = <<"error of", SignSteps[a.failAt]>>
               /\ Len(r.steps) = a.failAt
               /\ (a.failAt < Len(SignSteps) =>
                     \A n \in DOMAIN r.steps : r.steps[n] # "executeTransactionBlock")

C25_Witness ==
  /\ Called("signTransactionWithZkLogin")
  /\ lastOp.arg.args.failAt = 3
  /\ lastOp.arg.result.kind = "threw"

\* C26: a storage statement that throws is caught and the value is treated as
\* absent: no call of the session-storage helpers, of the auth initialization,
\* of login or of logout ends with the storage error thrown to its caller
C26_StorageFailureDegradesToAbsent ==
  (Called("storageAccess") /\ lastOp.arg.args.fault = "throws") =>
    /\ lastOp.arg.result.kind = "returned"
    /\ lastOp.arg.result.value = Absent

\* C27: the key pair and the epoch bound that handlePinComplete commits to the
\* session are the ones initiateOAuthFlow generated, bound into the nonce and
\* left in sessionStorage before the redirect
C27_SessionKeepsNonceKey ==
  [][(/\ lastOp'.op = "handlePinComplete:complete"
      /\ ss["ephemeralKeyPair"] # Absent
      /\ ss["maxEpoch"] # Absent)
     => (/\ ss'["ephemeralKeyPair"] = ss["ephemeralKeyPair"]
         /\ ss'["maxEpoch"] = ss["maxEpoch"])]_vars

\* C28: every login attempt returns to Idle: when every awaited call settles,
\* isConnecting, once set by handleOAuthLogin or handleOAuthCallback, becomes
\* null again, and isProcessingOAuth, once set by handlePinComplete, becomes
\* false again, whether the attempt succeeds or fails (the state is that of the
\* LoginPage, which exists while the page is shown)
C28_AttemptReturnsToIdle ==
  /\ (route = "login" /\ isConnecting # "null") ~> (isConnecting = "null" \/ route # "login")
  /\ (route = "login" /\ isProcessingOAuth) ~> (~isProcessingOAuth \/ route # "login")

C28_Witness ==
  /\ lastOp.op = "handlePinComplete:failed"
  /\ lastOp.error = ErrProver
  /\ ~isProcessingOAuth
  /\ isConnecting = "null"
  /\ calls = <<>>

\* C29: in the revision with a user secret the AuthProvider's instance of the
\* session hook never holds the secret, so the getZkLoginSession() of the auth
\* context returns null in every state, also when a page has stored a complete
\* session and the provider's instance has read the persisted fields
C29_ProviderSessionAlwaysNull ==
  variant = "salt" =>
    /\ hook["provider"].userSalt = ""
    /\ GetSession(hook["provider"]) = NoSession

C29_Witness ==
  /\ variant = "salt"
  /\ GetSession(hook["page"]) # NoSession
  /\ hook["provider"].ephemeralKeyPair # EmptyString
  /\ hook["provider"].zkProof # NullProof
  /\ hook["provider"].maxEpoch # 0
  /\ GetSession(hook["provider"]) = NoSession

\* C30: the list the activity page holds belongs to the current user: once
\* every fetchTransactions call has been answered, a list of chain
\* transactions held for a logged-in user is the one fetched for that user
\* (an answer to an earlier user's call has not replaced it)
C30_ListBelongsToCurrentUser ==
  (user # NoUser /\ fetches = <<>> /\ transactions.kind = "chain") =>
    transactions.owner = user.address

====
